---- MODULE Spec2Model ----
(***************************************************************************)
(* Resilience layer of snapweb2: the server RateLimiter, the two retry     *)
(* executors (RetryManager, RetryHandler), the client FallbackManager with *)
(* its circuit breaker and request coalescing, the server FallbackManager  *)
(* (getNextFallbackModel) and the GracefulDegradationManager.              *)
(*                                                                         *)
(* Every component is a state machine of its own with its own              *)
(* specification (SpecRate, SpecDelay, ...); the components share nothing  *)
(* but the clock `now` (Date.now()).  In the specification of one          *)
(* component the variables of the others stay at their idle values.        *)
(***************************************************************************)
EXTENDS Integers, Sequences, FiniteSets, TLC

VARIABLES now               \* Date.now(), in milliseconds

(* RateLimiter (app/lib/.server/rate-limiter.ts) *)
VARIABLES rlConfig,         \* this._config: [windowMs, maxRequests]
          store,            \* this._store: key -> [count, resetTime]
          rlResult,         \* what the last checkLimit call returned
          winReset,         \* history: end of the window the key is in
          winCalls,         \* history: calls made in that window
          rlRejected        \* history: keys that had a call rejected

rlVars == <<rlConfig, store, rlResult, winReset, winCalls, rlRejected>>

(* RetryManager.calculateDelay and RetryHandler._calculateDelay *)
VARIABLES dlIn,             \* the configuration, the attempt and Math.random()
          dlOut             \* the delays computed from dlIn

dlVars == <<dlIn, dlOut>>

(* RetryManager.executeWithRetry (app/lib/utils/retryManager.ts) *)
VARIABLES rtCall,           \* the merged config of the call in progress
          rtPc,             \* "idle", "operation", "sleep" or "done"
          attempt,          \* the loop variable
          lastError,        \* the last error caught
          rtOps,            \* history: what each invocation of operation did
          rtHooks,          \* history: the hook calls made, in order
          rtOutcome         \* what the call resolved or rejected with

rtVars == <<rtCall, rtPc, attempt, lastError, rtOps, rtHooks, rtOutcome>>

(* GracefulDegradationManager (unnamed/part_003) *)
VARIABLES dgConfig,         \* this.config: the onServiceDown and onServiceUp hooks
          services,         \* this.services: name -> ServiceStatus
          cache,            \* this.cache: key -> [data, timestamp, ttl]
          probing,          \* services with a checkServiceHealth fetch in flight
          dgCall,           \* the executeWithDegradation call in progress
          dgPc,             \* "idle", "primary", "fallback" or "done"
          dgOriginalError,  \* originalError of handleFallback
          dgInvoked,        \* history: the operations the call invoked
          dgOutcome         \* what the call returned or threw

dgVars == <<dgConfig, services, cache, probing, dgCall, dgPc, dgOriginalError,
            dgInvoked, dgOutcome>>

(* server FallbackManager.getNextFallbackModel (unnamed/part_004) *)
VARIABLES selEnv,           \* PROVIDER_LIST, DEFAULT_MODEL and DEFAULT_PROVIDER
          providerHealth,   \* this._providerHealth: provider -> [isHealthy, lastChecked]
          selCall,          \* failedModel and failedProvider of the call in progress
          selPc,            \* "idle", "loop", "probe", "model", "default", "defaultProbe", "done"
          selQueue,         \* the candidates of availableFallbacks not yet tried
          selProbeAt,       \* `now` of the _isProviderHealthy call that is probing
          selChecks,        \* history: priority -> what the checks of the candidate gave
          selCalls,         \* history: the number of calls made
          selResult         \* what the call returned

selVars == <<selEnv, providerHealth, selCall, selPc, selQueue, selProbeAt, selChecks,
             selCalls, selResult>>

(* client FallbackManager (app/lib/utils/fallbackManager.ts) *)
VARIABLES providers,        \* this.providers: name -> FallbackProvider
          activeRequests,   \* this.activeRequests: context -> the chain whose promise it holds
          chains,           \* the executeWithFallbackInternal calls, in flight or not
          fbStarted,        \* history: the number of chains started
          fbLastStart,      \* history: the context of the chain started last
          fbRevived         \* history: the provider a success last re-enabled

fbVars == <<providers, activeRequests, chains, fbStarted, fbLastStart, fbRevived>>

(* streamText (app/lib/.server/retry-handler.ts), one call *)
VARIABLES stPc,             \* "idle", "operation", "sleep", "select" or "done"
          stModel,          \* currentModelDetails.name
          stProvider,       \* provider.name
          fallbackCount,    \* the loop variable of the fallback loop
          stAttempt,        \* the loop variable of rateLimitRetryHandler.executeWithRetry
          stError,          \* the error last caught: retryResult.error, then `error`
          stWhere,          \* which getNextFallbackModel call is awaited: "try" or "catch"
          stTried,          \* history: the pairs the operation was invoked on, in order
          stOutcome         \* what the call returned or threw

stVars == <<stPc, stModel, stProvider, fallbackCount, stAttempt, stError, stWhere,
            stTried, stOutcome>>

(* server FallbackManager._isProviderHealthy, called by concurrent requests *)
VARIABLES hpCalls           \* caller -> its _isProviderHealthy call: pc "idle", "probe", "done"

hpVars == <<hpCalls>>

(* GracefulDegradationManager.getCache, called directly *)
VARIABLES dgRead            \* the last getCache call: its key, the entry it found, its result

gcVars == <<dgRead>>

vars == <<now, rlVars, dlVars, rtVars, dgVars, selVars, fbVars, stVars, hpVars, gcVars>>

Max2(a, b) == IF a >= b THEN a ELSE b

(***************************************************************************)
(*                              RateLimiter                                *)
(***************************************************************************)
Keys == {"ip:a", "ip:b"}          \* what _getKey(request) returns
WindowChoices == {2, 3}           \* windowMs values tried
MaxLimit == 2                     \* maxRequests ranges over 0..MaxLimit
MaxCount == 3                     \* calls counted in one window
MaxNow == 5                       \* the clock stops here

NoResult == [key |-> "-", allowed |-> FALSE, resetTime |-> 0, remaining |-> 0,
             count |-> 0, at |-> 0, fresh |-> FALSE]

Put(map, k, v) == [x \in DOMAIN map \cup {k} |-> IF x = k THEN v ELSE map[x]]
Delete(map, k) == [x \in DOMAIN map \ {k} |-> map[x]]

RLInitWith(w, m) ==
    /\ rlConfig = [windowMs |-> w, maxRequests |-> m]
    /\ store = << >>
    /\ rlResult = NoResult
    /\ winReset = [k \in Keys |-> 0]
    /\ winCalls = [k \in Keys |-> 0]
    /\ rlRejected = {}

RLInit == \E w \in WindowChoices, m \in 0..MaxLimit : RLInitWith(w, m)
RLIdle == RLInitWith(2, 1)

\* `if (!entry || entry.resetTime <= now)`
WindowExpired_Strict(entry, t) == entry.resetTime < t
WindowExpired(entry, t) == entry.resetTime <= t

\* `const allowed = entry.count <= this._config.maxRequests`
Allowed(count, max) == count <= max

\* History of the window a key is in, kept beside the code's own entry: a
\* window starts with the first call, or with the first call at or after the
\* end of the window before, and lasts windowMs.
WindowHistory(k) ==
    IF winCalls[k] = 0 \/ now >= winReset[k]
    THEN /\ winReset' = [winReset EXCEPT ![k] = now + rlConfig.windowMs]
         /\ winCalls' = [winCalls EXCEPT ![k] = 1]
    ELSE /\ winCalls' = [winCalls EXCEPT ![k] = @ + 1]
         /\ UNCHANGED winReset

\* A limiter whose window slides: every call moves resetTime.
checkLimit_Sliding(k) ==
    LET resetTime == now + rlConfig.windowMs
        max == rlConfig.maxRequests
    IN  /\ IF k \notin DOMAIN store \/ WindowExpired(store[k], now)
           THEN /\ store' = Put(store, k, [count |-> 1, resetTime |-> resetTime])
                /\ rlResult' = [key |-> k, allowed |-> TRUE, resetTime |-> resetTime,
                                remaining |-> max - 1, count |-> 1, at |-> now,
                                fresh |-> TRUE]
           ELSE LET entry == [count |-> store[k].count + 1, resetTime |-> resetTime] IN
                /\ entry.count <= MaxCount
                /\ store' = Put(store, k, entry)
                /\ rlResult' = [key |-> k, allowed |-> Allowed(entry.count, max),
                                resetTime |-> entry.resetTime,
                                remaining |-> Max2(0, max - entry.count),
                                count |-> entry.count, at |-> now, fresh |-> FALSE]
        /\ WindowHistory(k)
        /\ rlRejected' = IF rlResult'.allowed THEN rlRejected ELSE rlRejected \cup {k}
        /\ UNCHANGED <<now, rlConfig>>

checkLimit(k) ==
    LET resetTime == now + rlConfig.windowMs
        max == rlConfig.maxRequests
    IN  /\ IF k \notin DOMAIN store \/ WindowExpired(store[k], now)
           THEN /\ store' = Put(store, k, [count |-> 1, resetTime |-> resetTime])
                /\ rlResult' = [key |-> k, allowed |-> TRUE, resetTime |-> resetTime,
                                remaining |-> max - 1, count |-> 1, at |-> now,
                                fresh |-> TRUE]
           ELSE LET entry == [store[k] EXCEPT !.count = @ + 1] IN
                /\ entry.count <= MaxCount
                /\ store' = Put(store, k, entry)
                /\ rlResult' = [key |-> k, allowed |-> Allowed(entry.count, max),
                                resetTime |-> entry.resetTime,
                                remaining |-> Max2(0, max - entry.count),
                                count |-> entry.count, at |-> now, fresh |-> FALSE]
        /\ WindowHistory(k)
        /\ rlRejected' = IF rlResult'.allowed THEN rlRejected ELSE rlRejected \cup {k}
        /\ UNCHANGED <<now, rlConfig>>

\* A sweep that drops every window, expired or not.
cleanup_Eager ==
    /\ \E k \in DOMAIN store : store[k].resetTime <= now
    /\ store' = << >>
    /\ UNCHANGED <<now, rlConfig, rlResult, winReset, winCalls, rlRejected>>

\* The sweep the constructor schedules with setInterval.
cleanup ==
    /\ \E k \in DOMAIN store : store[k].resetTime <= now
    /\ store' = [k \in {x \in DOMAIN store : ~(store[x].resetTime <= now)} |-> store[k]]
    /\ UNCHANGED <<now, rlConfig, rlResult, winReset, winCalls, rlRejected>>

RLTick ==
    /\ now < MaxNow
    /\ now' = now + 1
    /\ UNCHANGED rlVars

(***************************************************************************)
(*        RetryManager.calculateDelay, RetryHandler._calculateDelay        *)
(*                                                                         *)
(* The delays are real numbers in the code.  Here a real is a fraction     *)
(* <<numerator, denominator>>, backoffMultiplier is a fraction too, and    *)
(* Math.random() is rnd / JitterSteps with rnd in 0..JitterSteps-1, so it  *)
(* lies in [0, 1) as in the code.                                          *)
(***************************************************************************)
JitterSteps == 4                  \* Math.random() takes JitterSteps values
MaxAttemptNo == 5                 \* attempt ranges over 1..MaxAttemptNo
BaseDelays == {500, 1000, 2000, 5000}
MaxDelays == {1000, 10000, 30000, 120000}
Multipliers == {<<2, 1>>, <<3, 2>>, <<5, 2>>, <<3, 1>>}

RECURSIVE Pow(_, _)
Pow(b, e) == IF e = 0 THEN 1 ELSE b * Pow(b, e - 1)

\* a <= b for fractions with positive denominators
FracLeq(a, b) == a[1] * b[2] <= b[1] * a[2]
FracMin(a, b) == IF FracLeq(a, b) THEN a ELSE b

\* `baseDelay * Math.pow(backoffMultiplier, attempt - 1)`
Backoff(cfg, att) ==
    <<cfg.baseDelay * Pow(cfg.backoffMultiplier[1], att - 1),
      Pow(cfg.backoffMultiplier[2], att - 1)>>

\* RetryManager.calculateDelay: jitter = random * 0.1 * delay, then
\* Math.min(delay + jitter, maxDelay).  cfg is this.config.
calculateDelay(cfg, att, rnd) ==
    LET delay == Backoff(cfg, att)
        sum == <<delay[1] * (10 * JitterSteps + rnd), delay[2] * 10 * JitterSteps>>
    IN  FracMin(sum, <<cfg.maxDelay, 1>>)

\* RetryHandler._calculateDelay: the cap first, then jitter = 0.5 + random,
\* then Math.floor(cappedDelay * jitter).
calculateDelayRH(cfg, att, rnd) ==
    LET delay == Backoff(cfg, att)
        cappedDelay == FracMin(delay, <<cfg.maxDelay, 1>>)
    IN  (cappedDelay[1] * (JitterSteps + 2 * rnd)) \div (cappedDelay[2] * 2 * JitterSteps)

NoDelays == [manager |-> <<0, 1>>, handler |-> 0, managerDone |-> FALSE,
             handlerDone |-> FALSE]

DLInitWith(b, m, k, a, r) ==
    /\ dlIn = [baseDelay |-> b, maxDelay |-> m, backoffMultiplier |-> k,
               attempt |-> a, rnd |-> r]
    /\ dlOut = NoDelays

DLInit ==
    \E b \in BaseDelays, m \in MaxDelays, k \in Multipliers,
       a \in 1..MaxAttemptNo, r \in 0..(JitterSteps - 1) : DLInitWith(b, m, k, a, r)
DLIdle == DLInitWith(1000, 10000, <<2, 1>>, 1, 0)

DelayOfRetryManager ==
    /\ ~dlOut.managerDone
    /\ dlOut' = [dlOut EXCEPT !.manager = calculateDelay(dlIn, dlIn.attempt, dlIn.rnd),
                              !.managerDone = TRUE]
    /\ UNCHANGED <<now, dlIn>>

DelayOfRetryHandler ==
    /\ ~dlOut.handlerDone
    /\ dlOut' = [dlOut EXCEPT !.handler = calculateDelayRH(dlIn, dlIn.attempt, dlIn.rnd),
                              !.handlerDone = TRUE]
    /\ UNCHANGED <<now, dlIn>>

(***************************************************************************)
(*                     RetryManager.executeWithRetry                       *)
(*                                                                         *)
(* A string of the code is a sequence of tokens here, String.includes is   *)
(* the search for a contiguous run of tokens and toLowerCase maps every    *)
(* token to its lower-case form.                                           *)
(***************************************************************************)
MaxAttempts == 3                  \* maxAttempts ranges over 1..MaxAttempts

LowerTok(tok) ==
    CASE tok = "NETWORK" -> "network"
      [] tok = "ERROR" -> "error"
      [] tok = "Error" -> "error"
      [] tok = "TypeError" -> "typeerror"
      [] tok = "TIMEOUT" -> "timeout"
      [] tok = "RATE" -> "rate"
      [] tok = "LIMITED" -> "limited"
      [] tok = "SERVER" -> "server"
      [] tok = "SERVICE" -> "service"
      [] tok = "UNAVAILABLE" -> "unavailable"
      [] tok = "TEMPORARY" -> "temporary"
      [] tok = "FAILURE" -> "failure"
      [] tok = "HTTP" -> "http"
      [] tok = "Failed" -> "failed"
      [] tok = "Quota" -> "quota"
      [] tok = "Unauthorized" -> "unauthorized"
      [] tok = "Request" -> "request"
      [] tok = "Service" -> "service"
      [] tok = "QUOTA" -> "quota"
      [] tok = "CUSTOM" -> "custom"
      [] tok = "RETRY" -> "retry"
      [] tok = "CONDITION" -> "condition"
      [] OTHER -> tok

toLowerCase(s) == [i \in 1..Len(s) |-> LowerTok(s[i])]

includes(s, pat) ==
    \E i \in 1..(Len(s) - Len(pat) + 1) : SubSeq(s, i, i + Len(pat) - 1) = pat

\* DEFAULT_RETRY_CONFIG.retryableErrors
DefaultRetryableErrors ==
    { <<"NETWORK", "_", "ERROR">>, <<"TIMEOUT">>, <<"RATE", "_", "LIMITED">>,
      <<"SERVER", "_", "ERROR">>, <<"SERVICE", "_", "UNAVAILABLE">>,
      <<"TEMPORARY", "_", "FAILURE">> }

\* retryablePatterns of RetryManager.isRetryableError
RetryablePatterns ==
    { <<"network">>, <<"timeout">>, <<"rate", " ", "limit">>,
      <<"server", " ", "error">>, <<"service", " ", "unavailable">>,
      <<"temporary">>, <<"connection">>, <<"fetch">>, <<"abort">> }

\* The errors an operation throws.
ErrorIds == {"Network", "Server", "Quota", "Auth"}
ErrorOf(id) ==
    CASE id = "Network" ->
           [name |-> <<"TypeError">>, statusCode |-> 0,
            message |-> <<"Failed", " ", "to", " ", "fetch">>]
      [] id = "Server" ->
           [name |-> <<"Error">>, statusCode |-> 500,
            message |-> <<"SERVER", "_", "ERROR", ":", " ", "HTTP", " ", "500">>]
      [] id = "Quota" ->
           [name |-> <<"Error">>, statusCode |-> 429,
            message |-> <<"Quota", " ", "exceeded">>]
      [] id = "Auth" ->
           [name |-> <<"Error">>, statusCode |-> 401,
            message |-> <<"HTTP", " ", "401", ":", " ", "Unauthorized">>]
      [] id = "QuotaExceeded" ->
           [name |-> <<"Error">>, statusCode |-> 0,
            message |-> <<"Quota", " ", "exceeded">>]
      [] id = "Unavailable" ->
           [name |-> <<"Error">>, statusCode |-> 503,
            message |-> <<"Service", " ", "temporarily", " ", "unavailable">>]
      [] id = "Timeout" ->
           [name |-> <<"Error">>, statusCode |-> 0,
            message |-> <<"Request", " ", "timeout", " ", "after", " ", "30000", "ms">>]

\* RetryManager.isRetryableError, with this.config.retryableErrors
isRetryableError(retryableErrors, error) ==
    LET errorMessage == toLowerCase(error.message)
        errorName == toLowerCase(error.name)
    IN  \/ \E retryableError \in retryableErrors :
              \/ includes(errorMessage, toLowerCase(retryableError))
              \/ includes(errorName, toLowerCase(retryableError))
        \/ \E pattern \in RetryablePatterns :
              includes(errorMessage, pattern) \/ includes(errorName, pattern)

HookModes == {"absent", "returns", "throws"}

\* this.config of a manager made with `new RetryManager()`
ThisConfig == [maxAttempts |-> 3, retryableErrors |-> DefaultRetryableErrors]

\* A number that is `undefined`: every comparison with it is false.
UndefinedNumber == 0 - 1

\* What retryAsync puts in place of the list, and the name its wrapper gives
\* to an error that retryCondition accepts.
CUSTOM_RETRY_CONDITION == <<"CUSTOM", "_", "RETRY", "_", "CONDITION">>

\* customConfig.retryableErrors tried: not given, or one list.
CustomLists == {<< >>, <<{<<"QUOTA">>}>>}
\* retryCondition tried: not given (<< >>), or the errors it returns true for.
RetryConditions == {<< >>, <<{"Auth"}>>, <<{"Auth", "Network"}>>}

NoCall == [maxAttempts |-> 0, onRetry |-> "absent", onMaxAttemptsReached |-> "absent",
           retryableErrors |-> DefaultRetryableErrors, renames |-> {}, via |-> "-"]
NoOutcome == [kind |-> "pending", success |-> FALSE, attempts |-> 0, error |-> "none",
              data |-> "none"]

RTIdle ==
    /\ rtCall = NoCall
    /\ rtPc = "idle"
    /\ attempt = 0
    /\ lastError = "none"
    /\ rtOps = << >>
    /\ rtHooks = << >>
    /\ rtOutcome = NoOutcome

\* What a hook call does to the caller: a hook that throws ends the async
\* function, whose promise rejects with the hook's error.
HookThrows(mode) == mode = "throws"

\* After the loop: onMaxAttemptsReached?.(lastError), then the failure result
\* with `attempts: config.maxAttempts`.
AfterLoop(cfg, err) ==
    /\ rtPc' = "done"
    /\ IF cfg.onMaxAttemptsReached = "absent"
       THEN rtHooks' = rtHooks
       ELSE rtHooks' = Append(rtHooks, "onMaxAttemptsReached")
    /\ rtOutcome' =
         IF HookThrows(cfg.onMaxAttemptsReached)
         THEN [kind |-> "rejected", success |-> FALSE, attempts |-> 0, error |-> "Hook",
               data |-> "none"]
         ELSE [kind |-> "returned", success |-> FALSE, attempts |-> cfg.maxAttempts,
               error |-> err, data |-> "none"]

\* The body of executeWithRetry once `config` is merged, up to the first
\* `await operation()`.
EnterLoop(config) ==
    /\ rtPc = "idle"
    /\ rtCall' = config
    /\ attempt' = 1
    /\ IF 1 <= config.maxAttempts
       THEN /\ rtPc' = "operation"
            /\ UNCHANGED <<rtHooks, rtOutcome>>
       ELSE AfterLoop(config, lastError)
    /\ UNCHANGED <<now, lastError, rtOps>>

\* executeWithRetry(operation, customConfig): `{ ...this.config, ...customConfig }`.
\* retryableErrors is << >> when customConfig has no such key.
executeWithRetry(n, onRetry, onMax, retryableErrors) ==
    EnterLoop([maxAttempts |-> n, onRetry |-> onRetry, onMaxAttemptsReached |-> onMax,
               retryableErrors |-> IF retryableErrors = << >>
                                   THEN ThisConfig.retryableErrors
                                   ELSE retryableErrors[1],
               renames |-> {}, via |-> "executeWithRetry"])

\* retryAsync(asyncFn, options): the config it builds always has the key
\* maxAttempts, `undefined` when the option is not given; with a
\* retryCondition the list is ['CUSTOM_RETRY_CONDITION'] and the wrapper
\* renames the errors the condition accepts.
retryAsync(maxAttempts, onRetry, retryCondition) ==
    EnterLoop([maxAttempts |-> IF maxAttempts = << >> THEN UndefinedNumber
                               ELSE maxAttempts[1],
               onRetry |-> onRetry, onMaxAttemptsReached |-> "absent",
               retryableErrors |-> IF retryCondition = << >>
                                   THEN ThisConfig.retryableErrors
                                   ELSE {CUSTOM_RETRY_CONDITION},
               renames |-> IF retryCondition = << >> THEN {} ELSE retryCondition[1],
               via |-> "retryAsync"])

\* The error the catch block of executeWithRetry sees.
Thrown(r) ==
    IF r \in rtCall.renames
    THEN [ErrorOf(r) EXCEPT !.name = CUSTOM_RETRY_CONDITION]
    ELSE ErrorOf(r)

\* this.isRetryableError(lastError): the list read is this.config's.
RetryTest(r) == isRetryableError(ThisConfig.retryableErrors, Thrown(r))

\* OperationSettles without the backoff: the next attempt starts in the catch block.
OperationSettles_NoSleep(r) ==
    /\ rtPc = "operation"
    /\ rtOps' = Append(rtOps, r)
    /\ IF r = "ok"
       THEN /\ rtPc' = "done"
            /\ rtOutcome' = [kind |-> "returned", success |-> TRUE,
                             attempts |-> attempt, error |-> "none", data |-> r]
            /\ UNCHANGED <<lastError, rtHooks, attempt>>
       ELSE /\ lastError' = r
            /\ IF \/ attempt = rtCall.maxAttempts
                  \/ ~RetryTest(r)
               THEN AfterLoop(rtCall, r) /\ UNCHANGED attempt
               ELSE /\ IF rtCall.onRetry = "absent"
                       THEN rtHooks' = rtHooks
                       ELSE rtHooks' = Append(rtHooks, "onRetry")
                    /\ IF HookThrows(rtCall.onRetry)
                       THEN /\ rtPc' = "done"
                            /\ rtOutcome' = [kind |-> "rejected", success |-> FALSE,
                                             attempts |-> 0, error |-> "Hook",
                                             data |-> "none"]
                            /\ UNCHANGED attempt
                       ELSE /\ rtPc' = "operation"
                            /\ attempt' = attempt + 1
                            /\ UNCHANGED rtOutcome
    /\ UNCHANGED <<now, rtCall>>

\* `await operation()` settles: r is "ok" or the error thrown.
OperationSettles(r) ==
    /\ rtPc = "operation"
    /\ rtOps' = Append(rtOps, r)
    /\ IF r = "ok"
       THEN /\ rtPc' = "done"
            /\ rtOutcome' = [kind |-> "returned", success |-> TRUE,
                             attempts |-> attempt, error |-> "none", data |-> r]
            /\ UNCHANGED <<lastError, rtHooks>>
       ELSE /\ lastError' = r
            /\ IF \/ attempt = rtCall.maxAttempts
                  \/ ~RetryTest(r)
               THEN AfterLoop(rtCall, r)
               ELSE /\ IF rtCall.onRetry = "absent"
                       THEN rtHooks' = rtHooks
                       ELSE rtHooks' = Append(rtHooks, "onRetry")
                    /\ IF HookThrows(rtCall.onRetry)
                       THEN /\ rtPc' = "done"
                            /\ rtOutcome' = [kind |-> "rejected", success |-> FALSE,
                                             attempts |-> 0, error |-> "Hook",
                                             data |-> "none"]
                       ELSE /\ rtPc' = "sleep"
                            /\ UNCHANGED rtOutcome
    /\ UNCHANGED <<now, rtCall, attempt>>

\* `await this.sleep(delay)` ends; the toast, `attempt++` and the loop test.
SleepEnds ==
    /\ rtPc = "sleep"
    /\ attempt' = attempt + 1
    /\ IF attempt + 1 <= rtCall.maxAttempts
       THEN /\ rtPc' = "operation"
            /\ UNCHANGED <<rtHooks, rtOutcome>>
       ELSE AfterLoop(rtCall, lastError)
    /\ UNCHANGED <<now, rtCall, lastError, rtOps>>

(***************************************************************************)
(*                     GracefulDegradationManager                          *)
(*                                                                         *)
(* Values are strings; "" is the falsy one.  An optional value is a        *)
(* sequence: << >> for undefined or null, <<v>> for v.                     *)
(***************************************************************************)
ServiceNames == {"API"}
CacheKeys == {"ck"}
TimePoints == {100, 101}                  \* the clock values after 0
CacheTTLs == {0, 100}                     \* cacheTTL given; 0 is "not given"
PrimaryValues == {"", "fresh"}            \* what primaryOperation resolves with
FallbackValues == {"alt"}                 \* what fallbackOperation resolves with
DefaultCacheTTL == 300000

Truthy(v) == v # ""

Status(avail, checked, err) ==
    [isAvailable |-> avail, lastChecked |-> checked, error |-> err, set |-> TRUE]

NoOptions == [serviceName |-> "-", useCache |-> FALSE, cacheKey |-> "",
              cacheTTL |-> 0, fallbackOperation |-> FALSE, cachedResult |-> << >>]
NoResultDG == [kind |-> "pending", value |-> "", from |-> "-"]

DGInitWith(down, up) ==
    /\ dgConfig = [onServiceDown |-> down, onServiceUp |-> up]
    /\ services = << >>
    /\ cache = << >>
    /\ probing = {}
    /\ dgCall = NoOptions
    /\ dgPc = "idle"
    /\ dgOriginalError = << >>
    /\ dgInvoked = {}
    /\ dgOutcome = NoResultDG

DGInit == \E down \in HookModes, up \in HookModes : DGInitWith(down, up)
DGIdle == DGInitWith("absent", "absent")

\* isServiceAvailable: `service?.isAvailable ?? false`
isServiceAvailable(svcs, name) == name \in DOMAIN svcs /\ svcs[name].isAvailable

\* A read that takes the entry for expired one millisecond early.
CacheRead_Early(c, key, t) ==
    IF key \notin DOMAIN c THEN << >>
    ELSE IF t - c[key].timestamp >= c[key].ttl THEN << >>
    ELSE <<c[key].data>>

\* getCache without the delete: the value read, << >> for null
CacheRead(c, key, t) ==
    IF key \notin DOMAIN c THEN << >>
    ELSE IF t - c[key].timestamp > c[key].ttl THEN << >>
    ELSE <<c[key].data>>

\* what getCache leaves of the cache: an expired entry is deleted
CacheAfterRead(c, key, t) ==
    IF key \in DOMAIN c /\ t - c[key].timestamp > c[key].ttl THEN Delete(c, key) ELSE c

\* `if (cached)` in handleFallback
CacheHit(cached) == cached # << >> /\ Truthy(cached[1])

\* updateServiceStatus: the map after services.set, and whether the hook it
\* calls on a change of availability throws
updateServiceStatus(svcs, cfg, name, newStatus) ==
    LET changed == name \in DOMAIN svcs /\ svcs[name].isAvailable # newStatus.isAvailable
        hook == IF newStatus.isAvailable THEN cfg.onServiceUp ELSE cfg.onServiceDown
    IN  [services |-> Put(svcs, name, newStatus), threw |-> changed /\ HookThrows(hook)]

\* checkServiceHealth once fetch has settled with `outcome`: "ok" (response.ok),
\* "notOk" (another HTTP status) or "throws" (network error, abort).  An
\* exception of updateServiceStatus inside `try` lands in `catch`, which
\* records the service unavailable with the exception's message.
checkServiceHealthSettled(svcs, cfg, name, outcome, t) ==
    LET first == updateServiceStatus(svcs, cfg, name,
                     Status(outcome = "ok", t, IF outcome = "ok" THEN "none" ELSE "HTTP"))
        caught(from, err) == updateServiceStatus(from, cfg, name, Status(FALSE, t, err))
    IN  IF outcome = "throws" THEN caught(svcs, "fetch")
        ELSE IF first.threw THEN caught(first.services, "Hook")
        ELSE first

\* registerService: the entry, then startHealthCheck, whose first probe starts
\* at once.
registerService(name) ==
    /\ services' = Put(services, name, Status(TRUE, 0, "none"))
    /\ probing' = probing \cup {name}
    /\ UNCHANGED <<now, dgConfig, cache, dgCall, dgPc, dgOriginalError, dgInvoked,
                   dgOutcome>>

unregisterService(name) ==
    /\ name \in DOMAIN services
    /\ services' = Delete(services, name)
    /\ UNCHANGED <<now, dgConfig, cache, probing, dgCall, dgPc, dgOriginalError,
                   dgInvoked, dgOutcome>>

\* checkServiceHealth, called by the interval or directly, up to `await fetch`.
checkServiceHealth(name) ==
    /\ name \notin probing
    /\ probing' = probing \cup {name}
    /\ UNCHANGED <<now, dgConfig, services, cache, dgCall, dgPc, dgOriginalError,
                   dgInvoked, dgOutcome>>

ProbeSettles(name, outcome) ==
    /\ name \in probing
    /\ probing' = probing \ {name}
    /\ services' = checkServiceHealthSettled(services, dgConfig, name, outcome, now).services
    /\ UNCHANGED <<now, dgConfig, cache, dgCall, dgPc, dgOriginalError, dgInvoked,
                   dgOutcome>>

setCache(key, data, ttl) ==
    /\ cache' = Put(cache, key, [data |-> data, timestamp |-> now, ttl |-> ttl])
    /\ UNCHANGED <<now, dgConfig, services, probing, dgCall, dgPc, dgOriginalError,
                   dgInvoked, dgOutcome>>

\* The end of handleFallback: cachedResult if given, else the throw.
FallbackTail(opts, originalError) ==
    IF opts.cachedResult # << >>
    THEN [kind |-> "returned", value |-> opts.cachedResult[1], from |-> "cachedResult"]
    ELSE IF originalError # << >>
    THEN [kind |-> "threw", value |-> originalError[1], from |-> "originalError"]
    ELSE [kind |-> "threw", value |-> "Service unavailable", from |-> "synthesized"]

\* handleFallback up to its first await: the cache, then fallbackOperation
\* started, then the tail.
handleFallback(opts, originalError, invoked) ==
    LET useCache == opts.useCache /\ opts.cacheKey # ""
        cached == IF useCache THEN CacheRead(cache, opts.cacheKey, now) ELSE << >>
    IN  /\ cache' = IF useCache THEN CacheAfterRead(cache, opts.cacheKey, now) ELSE cache
        /\ dgOriginalError' = originalError
        /\ IF useCache /\ CacheHit(cached)
           THEN /\ dgPc' = "done"
                /\ dgInvoked' = invoked
                /\ dgOutcome' = [kind |-> "returned", value |-> cached[1], from |-> "cache"]
           ELSE IF opts.fallbackOperation
           THEN /\ dgPc' = "fallback"
                /\ dgInvoked' = invoked \cup {"fallbackOperation"}
                /\ dgOutcome' = NoResultDG
           ELSE /\ dgPc' = "done"
                /\ dgInvoked' = invoked
                /\ dgOutcome' = FallbackTail(opts, originalError)

\* executeWithDegradation up to its first await.
executeWithDegradation(opts) ==
    /\ dgPc \in {"idle", "done"}
    /\ dgCall' = opts
    /\ IF isServiceAvailable(services, opts.serviceName)
       THEN /\ dgPc' = "primary"
            /\ dgInvoked' = {"primaryOperation"}
            /\ dgOutcome' = NoResultDG
            /\ dgOriginalError' = << >>
            /\ UNCHANGED cache
       ELSE handleFallback(opts, << >>, {})
    /\ UNCHANGED <<now, dgConfig, services, probing>>

\* `await primaryOperation()` settles: res is <<value>> or << >> for a throw.
PrimarySettles(res) ==
    /\ dgPc = "primary"
    /\ IF res # << >>
       THEN /\ cache' = IF dgCall.useCache /\ dgCall.cacheKey # ""
                        THEN Put(cache, dgCall.cacheKey,
                                 [data |-> res[1], timestamp |-> now,
                                  ttl |-> IF dgCall.cacheTTL # 0 THEN dgCall.cacheTTL
                                          ELSE DefaultCacheTTL])
                        ELSE cache
            /\ dgPc' = "done"
            /\ dgOutcome' = [kind |-> "returned", value |-> res[1], from |-> "primary"]
            /\ UNCHANGED <<services, dgOriginalError, dgInvoked>>
       ELSE /\ services' = Put(services, dgCall.serviceName, Status(FALSE, now, "primary"))
            /\ handleFallback(dgCall, <<"primary failed">>, dgInvoked)
    /\ UNCHANGED <<now, dgConfig, probing, dgCall>>

\* `await fallbackOptions.fallbackOperation()` settles; its failure is swallowed.
FallbackSettles(res) ==
    /\ dgPc = "fallback"
    /\ dgPc' = "done"
    /\ dgOutcome' = IF res # << >>
                    THEN [kind |-> "returned", value |-> res[1], from |-> "fallbackOperation"]
                    ELSE FallbackTail(dgCall, dgOriginalError)
    /\ UNCHANGED <<now, dgConfig, services, cache, probing, dgCall, dgOriginalError,
                   dgInvoked>>

DGTick ==
    /\ \E t \in TimePoints : t > now /\ now' = t
    /\ UNCHANGED dgVars

DGOptions ==
    [serviceName : ServiceNames, useCache : BOOLEAN, cacheKey : {""} \cup CacheKeys,
     cacheTTL : CacheTTLs, fallbackOperation : BOOLEAN,
     cachedResult : {<< >>, <<"default">>}]

(***************************************************************************)
(*              server FallbackManager.getNextFallbackModel                *)
(*                                                                         *)
(* PROVIDER_LIST, DEFAULT_MODEL and DEFAULT_PROVIDER come from             *)
(* ~/utils/constants; here they are selEnv, chosen when the module loads.  *)
(***************************************************************************)
FALLBACK_MODELS ==
    << [model |-> "claude-3-5-sonnet-latest", provider |-> "Anthropic", priority |-> 1],
       [model |-> "anthropic/claude-3.5-sonnet", provider |-> "OpenRouter", priority |-> 2],
       [model |-> "anthropic/claude-3-haiku", provider |-> "OpenRouter", priority |-> 3],
       [model |-> "google/gemini-flash-1.5", provider |-> "OpenRouter", priority |-> 4],
       [model |-> "deepseek/deepseek-coder", provider |-> "OpenRouter", priority |-> 5],
       [model |-> "mistralai/mistral-nemo", provider |-> "OpenRouter", priority |-> 6],
       [model |-> "cohere/command", provider |-> "OpenRouter", priority |-> 7],
       [model |-> "llama3.2:latest", provider |-> "Ollama", priority |-> 8],
       [model |-> "qwen2.5:latest", provider |-> "Ollama", priority |-> 9],
       [model |-> "mistral:latest", provider |-> "Ollama", priority |-> 10],
       [model |-> "codellama:latest", provider |-> "Ollama", priority |-> 11],
       [model |-> "local-model", provider |-> "LMStudio", priority |-> 12],
       [model |-> "gpt-4o-mini", provider |-> "OpenAI", priority |-> 13],
       [model |-> "gpt-3.5-turbo", provider |-> "OpenAI", priority |-> 14] >>

ListedProviders == {FALLBACK_MODELS[i].provider : i \in 1..Len(FALLBACK_MODELS)}
Priorities == {FALLBACK_MODELS[i].priority : i \in 1..Len(FALLBACK_MODELS)}

healthCheckCacheDuration == 5 * 60 * 1000
SelTimePoints == {healthCheckCacheDuration - 1, healthCheckCacheDuration}
MaxSelCalls == 1                  \* calls of getNextFallbackModel in one behaviour

\* The choices of PROVIDER_LIST and of the default pair.
ProviderLists == {ListedProviders \cup {"Google"}, (ListedProviders \ {"LMStudio"}) \cup {"Google"}}
DefaultPairs ==
    { [model |-> "claude-3-5-sonnet-latest", provider |-> "Anthropic"],
      [model |-> "gemini-1.5-pro", provider |-> "Google"] }
\* The failed pairs passed to getNextFallbackModel.
FailedPairs ==
    DefaultPairs \cup
    { [model |-> "anthropic/claude-3.5-sonnet", provider |-> "OpenRouter"],
      [model |-> "gpt-4o-mini", provider |-> "Anthropic"] }

NoSelCall == [failedModel |-> "-", failedProvider |-> "-"]
NoSelResult == [kind |-> "pending", model |-> "-", provider |-> "-"]
NoChecks == [p \in Priorities |-> "-"]

SelInitWith(list, default) ==
    /\ selEnv = [PROVIDER_LIST |-> list, DEFAULT_MODEL |-> default.model,
                 DEFAULT_PROVIDER |-> default.provider]
    /\ providerHealth = << >>
    /\ selCall = NoSelCall
    /\ selPc = "idle"
    /\ selQueue = << >>
    /\ selProbeAt = 0
    /\ selChecks = NoChecks
    /\ selCalls = 0
    /\ selResult = NoSelResult

SelInit == \E list \in ProviderLists, default \in DefaultPairs : SelInitWith(list, default)
SelIdle == SelInitWith(ListedProviders \cup {"Google"},
                       [model |-> "claude-3-5-sonnet-latest", provider |-> "Anthropic"])

\* Array.prototype.sort with (a, b) => a.priority - b.priority: a stable
\* insertion by priority.
RECURSIVE InsertByPriority(_, _)
InsertByPriority(e, s) ==
    IF s = << >> THEN <<e>>
    ELSE IF Head(s).priority <= e.priority
         THEN <<Head(s)>> \o InsertByPriority(e, Tail(s))
         ELSE <<e>> \o s

RECURSIVE SortByPriority(_)
SortByPriority(s) ==
    IF s = << >> THEN << >>
    ELSE InsertByPriority(s[Len(s)], SortByPriority(SubSeq(s, 1, Len(s) - 1)))

Reverse(s) == [i \in 1..Len(s) |-> s[Len(s) + 1 - i]]

\* `FALLBACK_MODELS.filter(...).sort(...)`
IsFailed(fallback, failedModel, failedProvider) ==
    fallback.model = failedModel /\ fallback.provider = failedProvider

availableFallbacks_Descending(failedModel, failedProvider) ==
    LET Keep(fallback) == ~IsFailed(fallback, failedModel, failedProvider)
    IN  Reverse(SortByPriority(SelectSeq(FALLBACK_MODELS, Keep)))

availableFallbacks(failedModel, failedProvider) ==
    LET Keep(fallback) == ~IsFailed(fallback, failedModel, failedProvider)
    IN  SortByPriority(SelectSeq(FALLBACK_MODELS, Keep))

\* _isProviderHealthy: is there recent health data for the provider
CachedFresh(health, providerName, t) ==
    /\ providerName \in DOMAIN health
    /\ t - health[providerName].lastChecked < healthCheckCacheDuration

\* The call, up to the first await of the loop (or of the default's check).
getNextFallbackModel(failedModel, failedProvider) ==
    /\ selPc \in {"idle", "done"}
    /\ selCalls < MaxSelCalls
    /\ selCalls' = selCalls + 1
    /\ selCall' = [failedModel |-> failedModel, failedProvider |-> failedProvider]
    /\ selQueue' = availableFallbacks(failedModel, failedProvider)
    /\ selPc' = "loop"
    /\ selChecks' = NoChecks
    /\ selResult' = NoSelResult
    /\ UNCHANGED <<now, selEnv, providerHealth, selProbeAt>>

\* The candidate is given up: `continue`, or the end of the loop body.
NextCandidate(outcome) ==
    /\ selChecks' = [selChecks EXCEPT ![Head(selQueue).priority] = outcome]
    /\ selQueue' = Tail(selQueue)
    /\ selPc' = "loop"
    /\ UNCHANGED selResult

\* One turn of the loop up to its first await: PROVIDER_LIST.find, then
\* _isProviderHealthy up to the cached verdict or to the probe.
LoopStep ==
    /\ selPc = "loop"
    /\ IF selQueue = << >>
       THEN /\ selPc' = "default"
            /\ UNCHANGED <<selQueue, selChecks, selResult, selProbeAt>>
       ELSE LET fallback == Head(selQueue) IN
            IF fallback.provider \notin selEnv.PROVIDER_LIST
            THEN NextCandidate("missing") /\ UNCHANGED selProbeAt
            ELSE IF CachedFresh(providerHealth, fallback.provider, now)
            THEN IF providerHealth[fallback.provider].isHealthy
                 THEN /\ selPc' = "model"
                      /\ UNCHANGED <<selQueue, selChecks, selResult, selProbeAt>>
                 ELSE NextCandidate("unhealthy") /\ UNCHANGED selProbeAt
            ELSE /\ selPc' = "probe"
                 /\ selProbeAt' = now
                 /\ UNCHANGED <<selQueue, selChecks, selResult>>
    /\ UNCHANGED <<now, selEnv, providerHealth, selCall, selCalls>>

\* `await this._performHealthCheck(provider, options)` settles.
SelProbeSettles(success) ==
    /\ selPc = "probe"
    /\ providerHealth' = Put(providerHealth, Head(selQueue).provider,
                             [isHealthy |-> success, lastChecked |-> selProbeAt])
    /\ IF success
       THEN /\ selPc' = "model"
            /\ UNCHANGED <<selQueue, selChecks, selResult>>
       ELSE NextCandidate("unhealthy")
    /\ UNCHANGED <<now, selEnv, selCall, selProbeAt, selCalls>>

\* `await this._isModelAvailable(...)` settles.
ModelSettles(isModelAvailable) ==
    /\ selPc = "model"
    /\ IF isModelAvailable
       THEN /\ selPc' = "done"
            /\ selChecks' = [selChecks EXCEPT ![Head(selQueue).priority] = "ok"]
            /\ selResult' = [kind |-> "list", model |-> Head(selQueue).model,
                             provider |-> Head(selQueue).provider]
            /\ UNCHANGED selQueue
       ELSE NextCandidate("unavailable")
    /\ UNCHANGED <<now, selEnv, providerHealth, selCall, selProbeAt, selCalls>>

\* A default that is returned whatever its provider's verdict.
DefaultOrNull_Unchecked(isDefaultHealthy) ==
    [kind |-> "default", model |-> selEnv.DEFAULT_MODEL,
     provider |-> selEnv.DEFAULT_PROVIDER]

\* What the call returns once the default provider's verdict is known.
DefaultOrNull(isDefaultHealthy) ==
    IF isDefaultHealthy
    THEN [kind |-> "default", model |-> selEnv.DEFAULT_MODEL,
          provider |-> selEnv.DEFAULT_PROVIDER]
    ELSE [kind |-> "null", model |-> "-", provider |-> "-"]

\* After the loop: _isProviderHealthy(DEFAULT_PROVIDER) up to the cached
\* verdict or to the probe.
DefaultStep ==
    /\ selPc = "default"
    /\ IF CachedFresh(providerHealth, selEnv.DEFAULT_PROVIDER, now)
       THEN /\ selPc' = "done"
            /\ selResult' = DefaultOrNull(providerHealth[selEnv.DEFAULT_PROVIDER].isHealthy)
            /\ UNCHANGED selProbeAt
       ELSE /\ selPc' = "defaultProbe"
            /\ selProbeAt' = now
            /\ UNCHANGED selResult
    /\ UNCHANGED <<now, selEnv, providerHealth, selCall, selQueue, selChecks, selCalls>>

DefaultProbeSettles(success) ==
    /\ selPc = "defaultProbe"
    /\ providerHealth' = Put(providerHealth, selEnv.DEFAULT_PROVIDER,
                             [isHealthy |-> success, lastChecked |-> selProbeAt])
    /\ selPc' = "done"
    /\ selResult' = DefaultOrNull(success)
    /\ UNCHANGED <<now, selEnv, selCall, selQueue, selProbeAt, selChecks, selCalls>>

SelTick ==
    /\ \E t \in SelTimePoints : t > now /\ now' = t
    /\ UNCHANGED selVars

(***************************************************************************)
(*                        client FallbackManager                           *)
(*                                                                         *)
(* A promise of executeWithFallbackInternal is a chain: a slot of `chains`.*)
(* A chain in flight is suspended in `await operation(provider.name)`      *)
(* ("op") or in `await this.delay(...)` ("delay").  promise.finally runs   *)
(* its callback when the chain settles, before any caller continues.       *)
(***************************************************************************)
ProviderOrder == <<"OpenRouter", "OpenAI", "Anthropic", "Google", "Cohere">>
ProviderNames == {ProviderOrder[i] : i \in 1..Len(ProviderOrder)}
maxRetries == 3
circuitBreakerTimeout == 5 * 60 * 1000
FBTimePoints == {circuitBreakerTimeout, circuitBreakerTimeout + 1}
ChainIds == {1, 2}                \* chains in flight at one time
MaxChains == 3                    \* chains started in one behaviour, coalescing
MaxBreakerChains == 4             \* chains started in one behaviour, circuit breaker
MaxCallers == 2                   \* callers holding one chain's promise
MaxAdminChains == 2               \* chains started in one behaviour, manual switch
MaxOrderChains == 1               \* chains started in one behaviour, provider order
\* The names passed to setProviderAvailability; "Mistral" is not registered.
AdminNames == {"OpenRouter", "OpenAI", "Mistral"}
Contexts == {"", "k"}             \* "" is the context not given
Preferred == {"", "OpenAI"}       \* "" is the preferredProvider not given
OpOutcomes == {"ok", "Network", "Auth"}

\* initializeProviders
DefaultProvider(i) ==
    [name |-> ProviderOrder[i], priority |-> i, maxFailures |-> 3, isAvailable |-> TRUE,
     failureCount |-> 0, lastFailure |-> << >>]

NoChain == [phase |-> "free", context |-> "", queue |-> << >>, total |-> 0,
            attemptCount |-> 0, callers |-> 0]

FBIdle ==
    /\ providers = [n \in ProviderNames |->
                      DefaultProvider(CHOOSE i \in 1..Len(ProviderOrder) : ProviderOrder[i] = n)]
    /\ activeRequests = << >>
    /\ chains = [c \in ChainIds |-> NoChain]
    /\ fbStarted = 0
    /\ fbLastStart = ""
    /\ fbRevived = ""

\* isRetryableError of the client FallbackManager
isRetryableErrorFB(error) ==
    LET status == error.statusCode
        message == toLowerCase(error.message)
    IN  IF \/ status = 401
           \/ includes(message, <<"api", " ", "key">>)
           \/ includes(message, <<"unauthorized">>)
        THEN FALSE
        ELSE IF includes(message, <<"quota">>) /\ ~includes(message, <<"rate", " ", "limit">>)
        THEN FALSE
        ELSE \/ status = 0
             \/ status >= 500
             \/ status = 429
             \/ includes(message, <<"timeout">>)
             \/ includes(message, <<"network">>)
             \/ includes(message, <<"connection">>)

\* getAvailableProviders, first half: the circuit breaker re-derived
CooledDown(provider, t) ==
    /\ ~provider.isAvailable
    /\ provider.lastFailure # << >>
    /\ t - provider.lastFailure[1] > circuitBreakerTimeout

AfterCooldown(provs, t) ==
    [n \in DOMAIN provs |->
        IF CooledDown(provs[n], t)
        THEN [provs[n] EXCEPT !.isAvailable = TRUE, !.failureCount = 0]
        ELSE provs[n]]

\* A list of the available providers that leaves the preferred one in its place.
AvailableNames_NoPreference(provs, preferredProvider) ==
    LET IsAvailable(n) == n \in DOMAIN provs /\ provs[n].isAvailable
        sorted == SortByPriority([i \in 1..Len(SelectSeq(ProviderOrder, IsAvailable)) |->
                                    provs[SelectSeq(ProviderOrder, IsAvailable)[i]]])
    IN  [i \in 1..Len(sorted) |-> sorted[i].name]

\* getAvailableProviders, second half: filter, sort, the preferred one first
AvailableNames(provs, preferredProvider) ==
    LET IsAvailable(n) == n \in DOMAIN provs /\ provs[n].isAvailable
        sorted == SortByPriority([i \in 1..Len(SelectSeq(ProviderOrder, IsAvailable)) |->
                                    provs[SelectSeq(ProviderOrder, IsAvailable)[i]]])
        names == [i \in 1..Len(sorted) |-> sorted[i].name]
        NotPreferred(n) == n # preferredProvider
    IN  IF preferredProvider # "" /\ \E i \in 1..Len(names) : names[i] = preferredProvider
        THEN <<preferredProvider>> \o SelectSeq(names, NotPreferred)
        ELSE names

\* recordProviderFailure
recordProviderFailure(provs, providerName, t) ==
    IF providerName \notin DOMAIN provs THEN provs
    ELSE LET count == provs[providerName].failureCount + 1 IN
         [provs EXCEPT ![providerName] =
             [@ EXCEPT !.failureCount = count,
                       !.lastFailure = <<t>>,
                       !.isAvailable = IF count >= provs[providerName].maxFailures
                                       THEN FALSE ELSE @]]

\* A reset of the count that leaves the flag as it is.
resetProviderFailures_KeepsFlag(provs, providerName) ==
    IF providerName \in DOMAIN provs
    THEN [provs EXCEPT ![providerName] =
             [@ EXCEPT !.failureCount = 0, !.lastFailure = << >>]]
    ELSE provs

\* resetProviderFailures
resetProviderFailures(provs, providerName) ==
    IF providerName \in DOMAIN provs
    THEN [provs EXCEPT ![providerName] =
             [@ EXCEPT !.failureCount = 0, !.isAvailable = TRUE, !.lastFailure = << >>]]
    ELSE provs

InFlight(c) == chains[c].phase # "free"

\* A settlement whose promise.finally callback does not run.
Settle_KeepsSlot(c) ==
    /\ chains' = [chains EXCEPT ![c] = NoChain]
    /\ activeRequests' = activeRequests

\* The chain c settles: its slot is left, and the callback of promise.finally
\* deletes the context's entry of activeRequests.
Settle(c) ==
    /\ chains' = [chains EXCEPT ![c] = NoChain]
    /\ activeRequests' = IF chains[c].context # "" THEN Delete(activeRequests, chains[c].context)
                         ELSE activeRequests

\* The loop of executeWithFallbackInternal from the top of a turn: with
\* providers left and attemptCount < maxRetries the operation is invoked on
\* the next one, else the chain throws.
NextTurn(c, rest, count) ==
    IF rest = << >> \/ count >= maxRetries
    THEN Settle(c)
    ELSE /\ chains' = [chains EXCEPT ![c] = [@ EXCEPT !.phase = "op", !.queue = rest,
                                                      !.attemptCount = count]]
         /\ UNCHANGED activeRequests

\* executeWithFallback: the promise of the chain in flight under the context,
\* or a new chain run up to its first await.
executeWithFallback(preferredProvider, context) ==
    IF context # "" /\ context \in DOMAIN activeRequests
    THEN LET c == activeRequests[context] IN
         /\ chains[c].callers < MaxCallers
         /\ chains' = [chains EXCEPT ![c] = [@ EXCEPT !.callers = @ + 1]]
         /\ UNCHANGED <<now, providers, activeRequests, fbStarted, fbLastStart, fbRevived>>
    ELSE LET provs == AfterCooldown(providers, now)
             availableProviders == AvailableNames(provs, preferredProvider)
         IN  /\ \E c \in ChainIds : ~InFlight(c)
             /\ fbStarted' = fbStarted + 1
             /\ fbLastStart' = context
             /\ providers' = provs
             /\ IF availableProviders = << >>
                THEN UNCHANGED <<chains, activeRequests>>
                ELSE LET c == CHOOSE x \in ChainIds :
                                 ~InFlight(x) /\ \A y \in ChainIds : ~InFlight(y) => x <= y
                     IN  /\ chains' = [chains EXCEPT ![c] =
                                [phase |-> "op", context |-> context,
                                 queue |-> availableProviders,
                                 total |-> Len(availableProviders),
                                 attemptCount |-> 0, callers |-> 1]]
                         /\ activeRequests' = IF context # ""
                                              THEN Put(activeRequests, context, c)
                                              ELSE activeRequests
             /\ UNCHANGED <<now, fbRevived>>

\* `await operation(provider.name)` of chain c settles: "ok" or the error.
FBOperationSettles(c, outcome) ==
    /\ chains[c].phase = "op"
    /\ LET name == Head(chains[c].queue)
           count == chains[c].attemptCount + 1
       IN  IF outcome = "ok"
           THEN /\ providers' = resetProviderFailures(providers, name)
                /\ fbRevived' = IF providers[name].isAvailable THEN fbRevived ELSE name
                /\ Settle(c)
           ELSE /\ providers' = recordProviderFailure(providers, name, now)
                /\ UNCHANGED fbRevived
                /\ IF /\ isRetryableErrorFB(ErrorOf(outcome))
                      /\ count < maxRetries
                      /\ chains[c].total > count
                   THEN /\ chains' = [chains EXCEPT ![c] =
                                         [@ EXCEPT !.phase = "delay", !.attemptCount = count]]
                        /\ UNCHANGED activeRequests
                   ELSE NextTurn(c, Tail(chains[c].queue), count)
    /\ UNCHANGED <<now, fbStarted, fbLastStart>>

\* `await this.delay(...)` of chain c ends.
DelayEnds(c) ==
    /\ chains[c].phase = "delay"
    /\ NextTurn(c, Tail(chains[c].queue), chains[c].attemptCount)
    /\ UNCHANGED <<now, providers, fbStarted, fbLastStart, fbRevived>>

clearActiveRequests ==
    /\ activeRequests # << >>
    /\ activeRequests' = << >>
    /\ UNCHANGED <<now, providers, chains, fbStarted, fbLastStart, fbRevived>>

\* A manual switch that clears the count in both directions.
setProviderAvailability_AlwaysResets(providerName, isAvailable) ==
    /\ providers' =
          IF providerName \in DOMAIN providers
          THEN [providers EXCEPT ![providerName] =
                   [@ EXCEPT !.isAvailable = isAvailable, !.failureCount = 0,
                             !.lastFailure = << >>]]
          ELSE providers
    /\ UNCHANGED <<now, activeRequests, chains, fbStarted, fbLastStart, fbRevived>>

\* setProviderAvailability: the manual switch of one provider
setProviderAvailability(providerName, isAvailable) ==
    /\ providers' =
          IF providerName \in DOMAIN providers
          THEN [providers EXCEPT ![providerName] =
                   IF isAvailable
                   THEN [@ EXCEPT !.isAvailable = TRUE, !.failureCount = 0,
                                  !.lastFailure = << >>]
                   ELSE [@ EXCEPT !.isAvailable = FALSE]]
          ELSE providers
    /\ UNCHANGED <<now, activeRequests, chains, fbStarted, fbLastStart, fbRevived>>

FBTick ==
    /\ \E t \in FBTimePoints : t > now /\ now' = t
    /\ UNCHANGED fbVars

(***************************************************************************)
(*                 streamText: retries, then fallbacks                     *)
(*                                                                         *)
(* One call of streamText from the fallback loop on.  The call is          *)
(* suspended in the operation of rateLimitRetryHandler.executeWithRetry    *)
(* ("operation": _streamText raced against the request timer), in its      *)
(* _sleep ("sleep") or in fallbackManager.getNextFallbackModel ("select"), *)
(* which runs here from call to return against this._providerHealth, the   *)
(* probes and the model lists answering as the environment chooses.        *)
(***************************************************************************)
maxFallbackAttempts == 3

rateLimitRetryHandler ==
    [maxRetries |-> 4,
     retryableStatusCodes |-> {429, 502, 503, 504},
     retryableErrorMessages |->
        { <<"too", " ", "many", " ", "requests">>, <<"rate", " ", "limit">>,
          <<"temporarily", " ", "rate", "-", "limited", " ", "upstream">>,
          <<"rate", "-", "limited">>, <<"quota", " ", "exceeded">> }]

\* What the operation of one attempt settles with: "ok", or an error; the
\* error "Timeout" is the one the request timer rejects with.
StreamErrorIds == {"QuotaExceeded", "Unavailable", "Auth", "Timeout"}
\* The (model, provider) pairs of the user's message.
StartPairs ==
    { [model |-> "gpt-4o-mini", provider |-> "OpenAI"],
      [model |-> "claude-3-5-sonnet-latest", provider |-> "Anthropic"] }
\* The providers whose health probe succeeds, as the environment has it.
HealthyChoices == { {}, {"Anthropic"}, {"OpenAI"}, {"Anthropic", "OpenAI"} }

NoStreamOutcome == [kind |-> "pending", from |-> "-", message |-> << >>]

STIdle ==
    /\ stPc = "idle"
    /\ stModel = "-"
    /\ stProvider = "-"
    /\ fallbackCount = 0
    /\ stAttempt = 0
    /\ stError = "-"
    /\ stWhere = "-"
    /\ stTried = << >>
    /\ stOutcome = NoStreamOutcome

\* RetryHandler._isRetryableError
isRetryableErrorRH(config, error) ==
    IF error.statusCode # 0 /\ error.statusCode \in config.retryableStatusCodes
    THEN TRUE
    ELSE IF error.message # << >>
    THEN \E retryableMsg \in config.retryableErrorMessages :
             includes(toLowerCase(error.message), retryableMsg)
    ELSE FALSE

\* FallbackManager.shouldUseFallback (server)
shouldUseFallback(error) ==
    LET errorMessage == toLowerCase(error.message)
        statusCode == error.statusCode
    IN  \/ includes(errorMessage, <<"quota", " ", "exceeded">>)
        \/ includes(errorMessage, <<"model", " ", "not", " ", "supported">>)
        \/ includes(errorMessage, <<"model", " ", "discontinued">>)
        \/ includes(errorMessage, <<"model", " ", "removed">>)
        \/ (statusCode >= 500 /\ statusCode # 503)
        \/ includes(errorMessage, <<"internal", " ", "server", " ", "error">>)
        \/ includes(errorMessage, <<"bad", " ", "gateway">>)
        \/ includes(errorMessage, <<"gateway", " ", "timeout">>)

\* The error thrown on the last fallback attempt: one of two templates around
\* the message of the error caught.
isTemporaryError(error) ==
    \/ includes(error.message, <<"temporarily", " ", "rate", "-", "limited">>)
    \/ includes(error.message, <<"no", " ", "endpoints", " ", "found">>)
    \/ includes(error.message, <<"timeout">>)
    \/ error.statusCode = 429

LastAttemptError(error) ==
    IF isTemporaryError(error)
    THEN [kind |-> "threw", from |-> "temporary",
          message |-> <<"all", " ", "providers", " ", "temporarily", " ", "unavailable",
                        ".", " ", "try", " ", "again", " ", "later", ".", " ",
                        "last", " ", "error", ":", " ">> \o error.message]
    ELSE [kind |-> "threw", from |-> "allFailed",
          message |-> <<"failed", " ", "to", " ", "reach", " ", "all", " ", "providers",
                        ".", " ", "check", " ", "the", " ", "connection", ".", " ",
                        "last", " ", "error", ":", " ">> \o error.message]

\* getNextFallbackModel from call to return at time t: the loop over `queue`,
\* then the default pair.  `healthy` are the providers whose probe succeeds,
\* hasModel is the answer of _isModelAvailable.
RECURSIVE WalkFallbacks(_, _, _, _, _)
WalkFallbacks(queue, health, healthy, hasModel, t) ==
    LET Checked(name) ==
            IF CachedFresh(health, name, t) THEN health
            ELSE Put(health, name, [isHealthy |-> name \in healthy, lastChecked |-> t])
    IN  IF queue = << >>
        THEN LET h == Checked(selEnv.DEFAULT_PROVIDER) IN
             [result |-> DefaultOrNull(h[selEnv.DEFAULT_PROVIDER].isHealthy), health |-> h]
        ELSE LET fallback == Head(queue) IN
             IF fallback.provider \notin selEnv.PROVIDER_LIST
             THEN WalkFallbacks(Tail(queue), health, healthy, hasModel, t)
             ELSE LET h == Checked(fallback.provider) IN
                  IF h[fallback.provider].isHealthy /\ hasModel
                  THEN [result |-> [kind |-> "list", model |-> fallback.model,
                                    provider |-> fallback.provider],
                        health |-> h]
                  ELSE WalkFallbacks(Tail(queue), h, healthy, hasModel, t)

\* streamText up to the first await of the fallback loop.
streamText(pair) ==
    /\ stPc = "idle"
    /\ stPc' = "operation"
    /\ stModel' = pair.model
    /\ stProvider' = pair.provider
    /\ fallbackCount' = 0
    /\ stAttempt' = 1
    /\ stTried' = <<pair>>
    /\ UNCHANGED <<now, stError, stWhere, stOutcome, providerHealth>>

\* A catch block without the test of the last attempt.
Catch_NoLimit(error) ==
    /\ stPc' = "select"
    /\ stWhere' = "catch"
    /\ UNCHANGED stOutcome

\* The catch block of the fallback loop, up to its await.
Catch(error) ==
    IF fallbackCount >= maxFallbackAttempts
    THEN /\ stPc' = "done"
         /\ stOutcome' = LastAttemptError(ErrorOf(error))
         /\ UNCHANGED stWhere
    ELSE /\ stPc' = "select"
         /\ stWhere' = "catch"
         /\ UNCHANGED stOutcome

\* executeWithRetry has returned {success: false, error}.
RetriesFailed(error) ==
    IF shouldUseFallback(ErrorOf(error)) /\ fallbackCount < maxFallbackAttempts
    THEN /\ stPc' = "select"
         /\ stWhere' = "try"
         /\ UNCHANGED stOutcome
    ELSE Catch(error)

\* The operation of the attempt settles: _streamText resolves ("ok"), rejects,
\* or the request timer rejects first ("Timeout").
StreamOperationSettles(outcome) ==
    /\ stPc = "operation"
    /\ IF outcome = "ok"
       THEN /\ stPc' = "done"
            /\ stOutcome' = [kind |-> "returned", from |-> stProvider, message |-> << >>]
            /\ UNCHANGED <<stError, stWhere>>
       ELSE /\ stError' = outcome
            /\ IF \/ stAttempt > rateLimitRetryHandler.maxRetries
                  \/ ~isRetryableErrorRH(rateLimitRetryHandler, ErrorOf(outcome))
               THEN RetriesFailed(outcome)
               ELSE /\ stPc' = "sleep"
                    /\ UNCHANGED <<stWhere, stOutcome>>
    /\ UNCHANGED <<now, stModel, stProvider, fallbackCount, stAttempt, stTried,
                   providerHealth>>

\* `await this._sleep(delay)` ends: the next attempt.
StreamSleepEnds ==
    /\ stPc = "sleep"
    /\ stPc' = "operation"
    /\ stAttempt' = stAttempt + 1
    /\ UNCHANGED <<now, stModel, stProvider, fallbackCount, stError, stWhere, stTried,
                   stOutcome, providerHealth>>

\* `await fallbackManager.getNextFallbackModel(...)` returns; found: the
\* details of the fallback model are in the provider's model list.
FallbackSelected(healthy, hasModel, found) ==
    /\ stPc = "select"
    /\ LET walk == WalkFallbacks(availableFallbacks(stModel, stProvider), providerHealth,
                                 healthy, hasModel, now)
           fallback == walk.result
       IN  /\ providerHealth' = walk.health
           /\ stProvider' = IF fallback.kind = "null" THEN stProvider ELSE fallback.provider
           /\ IF fallback.kind # "null" /\ found
              THEN /\ stModel' = fallback.model
                   /\ fallbackCount' = fallbackCount + 1
                   /\ stPc' = "operation"
                   /\ stAttempt' = 1
                   /\ stTried' = Append(stTried, [model |-> fallback.model,
                                                  provider |-> fallback.provider])
                   /\ UNCHANGED <<stWhere, stOutcome>>
              ELSE /\ UNCHANGED <<stModel, fallbackCount, stAttempt, stTried>>
                   /\ IF stWhere = "try"
                      THEN Catch(stError)
                      ELSE /\ stPc' = "done"
                           /\ stOutcome' = [kind |-> "threw", from |-> "error",
                                            message |-> ErrorOf(stError).message]
                           /\ UNCHANGED stWhere
    /\ UNCHANGED <<now, stError>>

(***************************************************************************)
(*        server FallbackManager._isProviderHealthy, concurrent calls      *)
(*                                                                         *)
(* fallbackManager is one instance for the whole server, so the            *)
(* getNextFallbackModel calls of two requests share _providerHealth.  A    *)
(* caller is suspended in `await this._performHealthCheck(...)` ("probe"). *)
(***************************************************************************)
Callers == {1, 2}
ProbedProviders == {"Anthropic", "OpenRouter"}

NoHealthCall == [pc |-> "idle", provider |-> "-", at |-> 0, verdict |-> FALSE]

HPIdle == hpCalls = [k \in Callers |-> NoHealthCall]

\* _isProviderHealthy up to the cached verdict or to the probe; `now` is read
\* before the probe and becomes lastChecked.
isProviderHealthy(k, providerName) ==
    /\ hpCalls[k].pc \in {"idle", "done"}
    /\ hpCalls' = [hpCalls EXCEPT ![k] =
          IF CachedFresh(providerHealth, providerName, now)
          THEN [pc |-> "done", provider |-> providerName, at |-> now,
                verdict |-> providerHealth[providerName].isHealthy]
          ELSE [pc |-> "probe", provider |-> providerName, at |-> now, verdict |-> FALSE]]
    /\ UNCHANGED <<now, providerHealth>>

\* `await this._performHealthCheck(provider, options)` of caller k settles.
HealthCheckSettles(k, success) ==
    /\ hpCalls[k].pc = "probe"
    /\ providerHealth' = Put(providerHealth, hpCalls[k].provider,
                             [isHealthy |-> success, lastChecked |-> hpCalls[k].at])
    /\ hpCalls' = [hpCalls EXCEPT ![k] = [@ EXCEPT !.pc = "done", !.verdict = success]]
    /\ UNCHANGED now

HPTick ==
    /\ \E t \in SelTimePoints : t > now /\ now' = t
    /\ UNCHANGED <<providerHealth, hpCalls>>

(***************************************************************************)
(*           GracefulDegradationManager: the cache read directly           *)
(***************************************************************************)
ReadKeys == {"ck", "other"}
ReadTTLs == {1, 100}

NoRead == [key |-> "-", found |-> << >>, value |-> << >>, at |-> 0]

GCIdle == dgRead = NoRead

\* getCache(key): the value or null, an expired entry deleted
getCache(key) ==
    /\ dgRead' = [key |-> key,
                  found |-> IF key \in DOMAIN cache THEN <<cache[key]>> ELSE << >>,
                  value |-> CacheRead(cache, key, now),
                  at |-> now]
    /\ cache' = CacheAfterRead(cache, key, now)
    /\ UNCHANGED now

\* clearCache(key)
clearCache(key) ==
    /\ key \in DOMAIN cache
    /\ cache' = Delete(cache, key)
    /\ UNCHANGED <<now, dgRead>>

(***************************************************************************)
(*                            Specifications                               *)
(***************************************************************************)
RLOthers == <<dlVars, rtVars, dgVars, selVars, fbVars, stVars, hpVars, gcVars>>
DLOthers == <<rlVars, rtVars, dgVars, selVars, fbVars, stVars, hpVars, gcVars>>
RTOthers == <<rlVars, dlVars, dgVars, selVars, fbVars, stVars, hpVars, gcVars>>
DGOthers == <<rlVars, dlVars, rtVars, selVars, fbVars, stVars, hpVars, gcVars>>
SelOthers == <<rlVars, dlVars, rtVars, dgVars, fbVars, stVars, hpVars, gcVars>>
FBOthers == <<rlVars, dlVars, rtVars, dgVars, selVars, stVars, hpVars, gcVars>>

RLNext ==
    \/ \E k \in Keys : checkLimit(k) /\ UNCHANGED RLOthers
    \/ cleanup /\ UNCHANGED RLOthers
    \/ RLTick /\ UNCHANGED RLOthers

InitRate == now = 0 /\ RLInit /\ DLIdle /\ RTIdle /\ DGIdle /\ SelIdle /\ FBIdle /\ STIdle /\ HPIdle /\ GCIdle
SpecRate == InitRate /\ [][RLNext]_vars

DLNext ==
    \/ DelayOfRetryManager /\ UNCHANGED DLOthers
    \/ DelayOfRetryHandler /\ UNCHANGED DLOthers

InitDelay == now = 0 /\ RLIdle /\ DLInit /\ RTIdle /\ DGIdle /\ SelIdle /\ FBIdle /\ STIdle /\ HPIdle /\ GCIdle
SpecDelay == InitDelay /\ [][DLNext]_vars

RTNext ==
    \/ \E n \in 1..MaxAttempts, onRetry \in HookModes, onMax \in HookModes :
          executeWithRetry(n, onRetry, onMax, << >>) /\ UNCHANGED RTOthers
    \/ \E r \in {"ok"} \cup ErrorIds : OperationSettles(r) /\ UNCHANGED RTOthers
    \/ SleepEnds /\ UNCHANGED RTOthers

InitRetry == now = 0 /\ RLIdle /\ DLIdle /\ RTIdle /\ DGIdle /\ SelIdle /\ FBIdle /\ STIdle /\ HPIdle /\ GCIdle
SpecRetry == InitRetry /\ [][RTNext]_vars

DGNext ==
    \/ \E name \in ServiceNames : registerService(name) /\ UNCHANGED DGOthers
    \/ \E name \in ServiceNames : unregisterService(name) /\ UNCHANGED DGOthers
    \/ \E name \in ServiceNames : checkServiceHealth(name) /\ UNCHANGED DGOthers
    \/ \E name \in ServiceNames, outcome \in {"ok", "notOk", "throws"} :
          ProbeSettles(name, outcome) /\ UNCHANGED DGOthers
    \/ \E key \in CacheKeys, data \in PrimaryValues, ttl \in CacheTTLs \ {0} :
          setCache(key, data, ttl) /\ UNCHANGED DGOthers
    \/ \E opts \in DGOptions : executeWithDegradation(opts) /\ UNCHANGED DGOthers
    \/ \E res \in {<< >>} \cup {<<v>> : v \in PrimaryValues} :
          PrimarySettles(res) /\ UNCHANGED DGOthers
    \/ \E res \in {<< >>} \cup {<<v>> : v \in FallbackValues} :
          FallbackSettles(res) /\ UNCHANGED DGOthers
    \/ DGTick /\ UNCHANGED DGOthers

InitDeg == now = 0 /\ RLIdle /\ DLIdle /\ RTIdle /\ DGIdle /\ SelIdle /\ FBIdle /\ STIdle /\ HPIdle /\ GCIdle
SpecDeg == InitDeg /\ [][DGNext]_vars

\* The health probes alone, under every choice of the two hooks.
HealthNext ==
    \/ \E name \in ServiceNames : registerService(name) /\ UNCHANGED DGOthers
    \/ \E name \in ServiceNames : unregisterService(name) /\ UNCHANGED DGOthers
    \/ \E name \in ServiceNames : checkServiceHealth(name) /\ UNCHANGED DGOthers
    \/ \E name \in ServiceNames, outcome \in {"ok", "notOk", "throws"} :
          ProbeSettles(name, outcome) /\ UNCHANGED DGOthers
    \/ DGTick /\ UNCHANGED DGOthers

InitHealth == now = 0 /\ RLIdle /\ DLIdle /\ RTIdle /\ DGInit /\ SelIdle /\ FBIdle /\ STIdle /\ HPIdle /\ GCIdle
SpecHealth == InitHealth /\ [][HealthNext]_vars

SelNext ==
    \/ \E failed \in FailedPairs :
          getNextFallbackModel(failed.model, failed.provider) /\ UNCHANGED SelOthers
    \/ LoopStep /\ UNCHANGED SelOthers
    \/ \E success \in BOOLEAN : SelProbeSettles(success) /\ UNCHANGED SelOthers
    \/ \E isModelAvailable \in BOOLEAN : ModelSettles(isModelAvailable) /\ UNCHANGED SelOthers
    \/ DefaultStep /\ UNCHANGED SelOthers
    \/ \E success \in BOOLEAN : DefaultProbeSettles(success) /\ UNCHANGED SelOthers
    \/ SelTick /\ UNCHANGED SelOthers

InitSel == now = 0 /\ RLIdle /\ DLIdle /\ RTIdle /\ DGIdle /\ SelInit /\ FBIdle /\ STIdle /\ HPIdle /\ GCIdle
SpecSel == InitSel /\ [][SelNext]_vars

\* The coalescing of calls by context: time stands still.
CoalesceNext ==
    \/ \E preferredProvider \in Preferred, context \in Contexts :
          /\ fbStarted < MaxChains
          /\ executeWithFallback(preferredProvider, context)
          /\ UNCHANGED FBOthers
    \/ \E c \in ChainIds, outcome \in OpOutcomes :
          FBOperationSettles(c, outcome) /\ UNCHANGED FBOthers
    \/ \E c \in ChainIds : DelayEnds(c) /\ UNCHANGED FBOthers
    \/ clearActiveRequests /\ UNCHANGED FBOthers

InitFB == now = 0 /\ RLIdle /\ DLIdle /\ RTIdle /\ DGIdle /\ SelIdle /\ FBIdle /\ STIdle /\ HPIdle /\ GCIdle
SpecCoalesce == InitFB /\ [][CoalesceNext]_vars

\* The circuit breaker: calls without a context, over the cooldown.
BreakerNext ==
    \/ \E preferredProvider \in Preferred :
          /\ fbStarted < MaxBreakerChains
          /\ executeWithFallback(preferredProvider, "")
          /\ UNCHANGED FBOthers
    \/ \E c \in ChainIds, outcome \in OpOutcomes :
          FBOperationSettles(c, outcome) /\ UNCHANGED FBOthers
    \/ \E c \in ChainIds : DelayEnds(c) /\ UNCHANGED FBOthers
    \/ FBTick /\ UNCHANGED FBOthers

SpecBreaker == InitFB /\ [][BreakerNext]_vars

\* The manual switch next to running chains: time stands still.
AdminNext ==
    \/ \E preferredProvider \in Preferred :
          /\ fbStarted < MaxAdminChains
          /\ executeWithFallback(preferredProvider, "")
          /\ UNCHANGED FBOthers
    \/ \E c \in ChainIds, outcome \in OpOutcomes :
          FBOperationSettles(c, outcome) /\ UNCHANGED FBOthers
    \/ \E c \in ChainIds : DelayEnds(c) /\ UNCHANGED FBOthers
    \/ \E providerName \in AdminNames, isAvailable \in BOOLEAN :
          setProviderAvailability(providerName, isAvailable) /\ UNCHANGED FBOthers

SpecAdmin == InitFB /\ [][AdminNext]_vars

STOthers == <<rlVars, dlVars, rtVars, dgVars, fbVars, hpVars, gcVars,
              selEnv, selCall, selPc, selQueue, selProbeAt, selChecks, selCalls, selResult>>

StreamNext ==
    \/ \E pair \in StartPairs : streamText(pair) /\ UNCHANGED STOthers
    \/ \E outcome \in {"ok"} \cup StreamErrorIds :
          StreamOperationSettles(outcome) /\ UNCHANGED STOthers
    \/ StreamSleepEnds /\ UNCHANGED STOthers
    \/ \E healthy \in HealthyChoices, hasModel \in BOOLEAN, found \in BOOLEAN :
          FallbackSelected(healthy, hasModel, found) /\ UNCHANGED STOthers

SpecStream == InitFB /\ [][StreamNext]_vars

\* The health verdicts under concurrent requests.
HPOthers == <<rlVars, dlVars, rtVars, dgVars, fbVars, stVars, gcVars,
              selEnv, selCall, selPc, selQueue, selProbeAt, selChecks, selCalls, selResult>>

ProbesNext ==
    \/ \E k \in Callers, providerName \in ProbedProviders :
          isProviderHealthy(k, providerName) /\ UNCHANGED HPOthers
    \/ \E k \in Callers, success \in BOOLEAN :
          HealthCheckSettles(k, success) /\ UNCHANGED HPOthers
    \/ HPTick /\ UNCHANGED HPOthers

SpecProbes == InitFB /\ [][ProbesNext]_vars

\* The cache alone: writes, reads and the clock.
CacheOthers == <<rlVars, dlVars, rtVars, selVars, fbVars, stVars, hpVars,
                 dgConfig, services, probing, dgCall, dgPc, dgOriginalError, dgInvoked,
                 dgOutcome>>

CacheNext ==
    \/ \E key \in ReadKeys, data \in PrimaryValues, ttl \in ReadTTLs :
          setCache(key, data, ttl) /\ UNCHANGED <<CacheOthers, gcVars>>
    \/ \E key \in ReadKeys : getCache(key) /\ UNCHANGED CacheOthers
    \/ \E key \in ReadKeys : clearCache(key) /\ UNCHANGED CacheOthers
    \/ DGTick /\ UNCHANGED <<CacheOthers, gcVars>>

SpecCache == InitFB /\ [][CacheNext]_vars

\* The per-call policy: executeWithRetry with a customConfig, and retryAsync.
PolicyNext ==
    \/ \E n \in 1..MaxAttempts, retryableErrors \in CustomLists :
          executeWithRetry(n, "absent", "absent", retryableErrors) /\ UNCHANGED RTOthers
    \/ \E maxAttempts \in {<< >>} \cup {<<n>> : n \in 1..MaxAttempts},
          onRetry \in {"absent", "returns"}, retryCondition \in RetryConditions :
          retryAsync(maxAttempts, onRetry, retryCondition) /\ UNCHANGED RTOthers
    \/ \E r \in {"ok"} \cup ErrorIds : OperationSettles(r) /\ UNCHANGED RTOthers
    \/ SleepEnds /\ UNCHANGED RTOthers

SpecPolicy == InitRetry /\ [][PolicyNext]_vars

\* The order of the providers of one call: any provider is switched off by
\* hand, time stands still.
OrderNext ==
    \/ \E preferredProvider \in Preferred :
          /\ fbStarted < MaxOrderChains
          /\ executeWithFallback(preferredProvider, "")
          /\ UNCHANGED FBOthers
    \/ \E c \in ChainIds, outcome \in OpOutcomes :
          FBOperationSettles(c, outcome) /\ UNCHANGED FBOthers
    \/ \E c \in ChainIds : DelayEnds(c) /\ UNCHANGED FBOthers
    \/ \E providerName \in ProviderNames :
          setProviderAvailability(providerName, FALSE) /\ UNCHANGED FBOthers

SpecOrder == InitFB /\ [][OrderNext]_vars

\* Registration and removal next to work in flight: the probes are those of
\* the interval of startHealthCheck, which runs for a service that has been
\* registered; time stands still.
UnregisterNext ==
    \/ \E name \in ServiceNames : registerService(name) /\ UNCHANGED DGOthers
    \/ \E name \in ServiceNames : unregisterService(name) /\ UNCHANGED DGOthers
    \/ \E name \in ServiceNames :
          name \in DOMAIN services /\ checkServiceHealth(name) /\ UNCHANGED DGOthers
    \/ \E name \in ServiceNames, outcome \in {"ok", "notOk", "throws"} :
          ProbeSettles(name, outcome) /\ UNCHANGED DGOthers
    \/ \E opts \in DGOptions : executeWithDegradation(opts) /\ UNCHANGED DGOthers
    \/ \E res \in {<< >>} \cup {<<v>> : v \in PrimaryValues} :
          PrimarySettles(res) /\ UNCHANGED DGOthers
    \/ \E res \in {<< >>} \cup {<<v>> : v \in FallbackValues} :
          FallbackSettles(res) /\ UNCHANGED DGOthers

SpecUnregister == InitDeg /\ [][UnregisterNext]_vars




(***************************************************************************)
(* C3: for one key, with max >= 1: the first max calls of a window are     *)
(* allowed; every further call made before the window's resetTime is       *)
(* rejected and reports a resetTime later than the time of the call; the   *)
(* first call made at or after resetTime is allowed and starts a new       *)
(* window with count = 1.  The window and the number of the call in it     *)
(* are those of the history, not of the code's entry.                      *)
(***************************************************************************)
C3_FixedWindow ==
    (rlConfig.maxRequests >= 1 /\ rlResult.key \in Keys) =>
        LET k == rlResult.key
            n == winCalls[k]
        IN  /\ rlResult.allowed = (n <= rlConfig.maxRequests)
            /\ rlResult.resetTime = winReset[k]
            /\ ~rlResult.allowed => rlResult.resetTime > rlResult.at
            /\ rlResult.count = n
            /\ (n = 1) = rlResult.fresh

\* A key had a call rejected inside a window and, at the window's resetTime
\* or after it, a call of the same key started a new window.
C3_Witness ==
    /\ rlConfig.maxRequests >= 1
    /\ rlResult.key \in rlRejected
    /\ rlResult.fresh
    /\ rlResult.allowed

(***************************************************************************)
(* C1: a call of executeWithRetry with maxAttempts = N whose operation     *)
(* fails with a retryable error every time ends with the operation invoked *)
(* exactly N times and the result success = false, attempts = N.           *)
(***************************************************************************)
AlwaysFailsRetryable ==
    /\ Len(rtOps) >= 1
    /\ \A i \in 1..Len(rtOps) :
          rtOps[i] # "ok" /\ isRetryableError(DefaultRetryableErrors, ErrorOf(rtOps[i]))

C1_ExactlyNAttempts ==
    (rtPc = "done" /\ AlwaysFailsRetryable) =>
        /\ Len(rtOps) = rtCall.maxAttempts
        /\ rtOutcome.kind = "returned"
        /\ ~rtOutcome.success
        /\ rtOutcome.attempts = rtCall.maxAttempts

(***************************************************************************)
(* C8: a call of executeWithDegradation that asks for the cache, made      *)
(* while the service is unavailable and the cache holds a non-expired      *)
(* entry for the key, returns the entry's value at once and invokes        *)
(* neither primaryOperation nor fallbackOperation.                         *)
(***************************************************************************)
C8_CachedValueFirst ==
    [][\A opts \in DGOptions :
          ( /\ executeWithDegradation(opts)
            /\ ~isServiceAvailable(services, opts.serviceName)
            /\ opts.useCache
            /\ opts.cacheKey \in DOMAIN cache
            /\ ~(now - cache[opts.cacheKey].timestamp > cache[opts.cacheKey].ttl) )
          => /\ dgPc' = "done"
             /\ dgOutcome'.kind = "returned"
             /\ dgOutcome'.value = cache[opts.cacheKey].data
             /\ dgInvoked' = {}]_vars

(***************************************************************************)
(* C9: the delay computed for an attempt is at most maxDelay, by           *)
(* RetryManager.calculateDelay and by RetryHandler._calculateDelay, for    *)
(* every attempt number and every value of Math.random().                  *)
(***************************************************************************)
C9_DelayAtMostMax ==
    /\ dlOut.managerDone => FracLeq(dlOut.manager, <<dlIn.maxDelay, 1>>)
    /\ dlOut.handlerDone => dlOut.handler <= dlIn.maxDelay

(***************************************************************************)
(* C10: hooks that throw change nothing.  For executeWithRetry: the call   *)
(* returns a result (its promise does not reject), and the operation is    *)
(* invoked until it succeeds, fails with an error that is not retryable,   *)
(* or has been invoked maxAttempts times, whatever onRetry and             *)
(* onMaxAttemptsReached do.                                                *)
(***************************************************************************)
LoopRanToItsEnd ==
    LET last == rtOps[Len(rtOps)]
    IN  /\ Len(rtOps) >= 1
        /\ \/ last = "ok"
           \/ ~isRetryableError(DefaultRetryableErrors, ErrorOf(last))
           \/ Len(rtOps) = rtCall.maxAttempts

C10_HooksChangeNothing ==
    rtPc = "done" => (rtOutcome.kind = "returned" /\ LoopRanToItsEnd)

(***************************************************************************)
(* The same for the health probes: the status a probe records is the one   *)
(* it records when onServiceUp and onServiceDown return.                   *)
(***************************************************************************)
QuietHooks == [onServiceDown |-> "returns", onServiceUp |-> "returns"]

HooksLeaveStatusAlone ==
    [][\A name \in ServiceNames, outcome \in {"ok", "notOk", "throws"} :
          ProbeSettles(name, outcome) =>
              services' = checkServiceHealthSettled(services, QuietHooks, name,
                                                    outcome, now).services]_vars

(***************************************************************************)
(* C4: getNextFallbackModel never returns the pair (failedModel,           *)
(* failedProvider) it was given, the default pair included.                *)
(***************************************************************************)
C4_NeverTheFailedPair ==
    (selPc = "done" /\ selResult.kind \in {"list", "default"}) =>
        ~(selResult.model = selCall.failedModel /\ selResult.provider = selCall.failedProvider)

(***************************************************************************)
(* C5: a candidate returned from the static list is not the failed pair,   *)
(* passed the health check and the availability check, and every listed    *)
(* candidate of smaller priority number other than the failed pair was     *)
(* tried before it and failed a check (its provider is not registered, or  *)
(* unhealthy, or its model is not available).                              *)
(***************************************************************************)
Candidates == {FALLBACK_MODELS[i] : i \in 1..Len(FALLBACK_MODELS)}

C5_LowestPassingPriority ==
    (selPc = "done" /\ selResult.kind = "list") =>
        \E r \in Candidates :
            /\ r.model = selResult.model /\ r.provider = selResult.provider
            /\ ~IsFailed(r, selCall.failedModel, selCall.failedProvider)
            /\ selChecks[r.priority] = "ok"
            /\ \A e \in Candidates :
                  (e.priority < r.priority
                      /\ ~IsFailed(e, selCall.failedModel, selCall.failedProvider))
                  => selChecks[e.priority] \in {"missing", "unhealthy", "unavailable"}
            /\ \A e \in Candidates :
                  e.priority > r.priority => selChecks[e.priority] = "-"

\* The failed pair is the second of the list; the first candidate's provider
\* is unhealthy, the third candidate's model is not available, the fourth
\* candidate passes both checks and is returned.
C5_Witness ==
    /\ selPc = "done"
    /\ selResult.kind = "list"
    /\ selCall.failedProvider = "OpenRouter"
    /\ selChecks[1] = "unhealthy"
    /\ selChecks[2] = "-"
    /\ selChecks[3] = "unavailable"
    /\ selChecks[4] = "ok"
    /\ selResult.model = "google/gemini-flash-1.5"

(***************************************************************************)
(* C2: a provider with maxFailures failures on record is reported          *)
(* unavailable, and a provider the circuit breaker has made unavailable    *)
(* is still unavailable after every step taken while no more than          *)
(* circuitBreakerTimeout has passed since its lastFailure.                 *)
(***************************************************************************)
C2_ClosedUntilCooldown ==
    [][\A n \in ProviderNames :
          /\ providers'[n].failureCount >= providers'[n].maxFailures
                => ~providers'[n].isAvailable
          /\ ( /\ ~providers[n].isAvailable
               /\ providers[n].failureCount >= providers[n].maxFailures
               /\ providers[n].lastFailure # << >>
               /\ now' - providers[n].lastFailure[1] <= circuitBreakerTimeout )
             => ~providers'[n].isAvailable]_vars

(***************************************************************************)
(* C6: a call of executeWithFallback made with a non-empty context while   *)
(* a chain started under that context is in flight starts no chain of its  *)
(* own: it gets the promise of the chain in flight.                        *)
(***************************************************************************)
C6_OneChainForTwoCalls ==
    [][fbStarted' # fbStarted =>
          ~(fbLastStart' # "" /\ \E c \in ChainIds :
                                    InFlight(c) /\ chains[c].context = fbLastStart')]_vars

(***************************************************************************)
(* C7: for a context key, at most one chain is in flight at any time.      *)
(***************************************************************************)
C7_AtMostOneChainPerKey ==
    \A context \in Contexts \ {""} :
        Cardinality({c \in ChainIds : InFlight(c) /\ chains[c].context = context}) <= 1
(***************************************************************************)
(* C12: in every reachable state, a provider record of the client          *)
(* FallbackManager that is unavailable has a failure count of at least its *)
(* threshold (the client has no probe), also after                         *)
(* setProviderAvailability(name, false).                                   *)
(***************************************************************************)
C12_UnavailableOnlyAtThreshold ==
    \A n \in DOMAIN providers :
        ~providers[n].isAvailable => providers[n].failureCount >= providers[n].maxFailures

\* The same for the service records of the GracefulDegradationManager, which
\* keep no count: a service is unavailable only by the verdict of a probe.
ServiceDownOnlyByProbe ==
    \A n \in DOMAIN services :
        ~services[n].isAvailable => services[n].error \in {"HTTP", "fetch", "Hook"}

(***************************************************************************)
(* C13: when the operation of a chain succeeds on a provider, that         *)
(* provider's record has failureCount 0 and isAvailable true right after,  *)
(* whatever they were before.                                              *)
(***************************************************************************)
C13_SuccessResets ==
    [][\A c \in ChainIds :
          FBOperationSettles(c, "ok") =>
              /\ providers'[Head(chains[c].queue)].failureCount = 0
              /\ providers'[Head(chains[c].queue)].isAvailable]_vars

\* A success has re-enabled a provider that was unavailable.
C13_Witness ==
    /\ fbRevived # ""
    /\ providers[fbRevived].isAvailable
    /\ providers[fbRevived].failureCount = 0

(***************************************************************************)
(* C14: setProviderAvailability(name, true) makes the provider available   *)
(* with failureCount 0; setProviderAvailability(name, false) makes it      *)
(* unavailable and keeps its failureCount; no other record changes, and    *)
(* for a name that is not registered no record changes.                    *)
(***************************************************************************)
C14_ManualSwitch ==
    [][\A n \in AdminNames, f \in BOOLEAN :
          setProviderAvailability(n, f) =>
              /\ \A m \in DOMAIN providers : m # n => providers'[m] = providers[m]
              /\ DOMAIN providers' = DOMAIN providers
              /\ n \in DOMAIN providers =>
                    /\ providers'[n].isAvailable = f
                    /\ providers'[n].failureCount =
                          IF f THEN 0 ELSE providers[n].failureCount]_vars

\* Switched off by hand after one failure: unavailable below the threshold.
C14_Witness ==
    \E n \in DOMAIN providers :
        /\ ~providers[n].isAvailable
        /\ providers[n].failureCount > 0
        /\ providers[n].failureCount < providers[n].maxFailures

(***************************************************************************)
(* C15: handleFallback returns the first of its chain that succeeds, in    *)
(* this order: the entry of the cache for cacheKey that has not expired    *)
(* (with useCache and a cacheKey); fallbackOperation, whose failure is     *)
(* swallowed; the cachedResult default if given; else it throws the        *)
(* original error, or a synthesized one when there is none.                *)
(***************************************************************************)
FreshEntry(opts) ==
    IF opts.useCache /\ opts.cacheKey # "" THEN CacheRead(cache, opts.cacheKey, now)
    ELSE << >>

ChainTail(opts, originalError) ==
    IF opts.cachedResult # << >>
    THEN [kind |-> "returned", value |-> opts.cachedResult[1], from |-> "cachedResult"]
    ELSE IF originalError # << >>
    THEN [kind |-> "threw", value |-> originalError[1], from |-> "originalError"]
    ELSE [kind |-> "threw", value |-> "Service unavailable", from |-> "synthesized"]

ChainHead(opts, originalError) ==
    IF FreshEntry(opts) # << >>
    THEN /\ dgPc' = "done"
         /\ dgOutcome' = [kind |-> "returned", value |-> FreshEntry(opts)[1],
                          from |-> "cache"]
    ELSE IF opts.fallbackOperation
    THEN dgPc' = "fallback" /\ "fallbackOperation" \in dgInvoked'
    ELSE dgPc' = "done" /\ dgOutcome' = ChainTail(opts, originalError)

C15_FallbackOrder ==
    [][/\ \A opts \in DGOptions :
             (executeWithDegradation(opts) /\ ~isServiceAvailable(services, opts.serviceName))
                 => ChainHead(opts, << >>)
       /\ PrimarySettles(<< >>) => ChainHead(dgCall, <<"primary failed">>)
       /\ \A v \in FallbackValues :
             FallbackSettles(<<v>>) =>
                 dgOutcome' = [kind |-> "returned", value |-> v, from |-> "fallbackOperation"]
       /\ FallbackSettles(<< >>) => dgOutcome' = ChainTail(dgCall, dgOriginalError)]_vars

(***************************************************************************)
(* C16: the result of every checkLimit call, the call that starts a window *)
(* included, and for every limit max >= 0, has allowed = (count <= max)    *)
(* and remaining = max(0, max - count), count being the window's count     *)
(* after the call.                                                         *)
(***************************************************************************)
C16_AllowedIffWithinLimit ==
    rlResult # NoResult =>
        /\ rlResult.allowed = (rlResult.count <= rlConfig.maxRequests)
        /\ rlResult.remaining = Max2(0, rlConfig.maxRequests - rlResult.count)

(***************************************************************************)
(* C11: when streamText gives up, the error it throws carries the message  *)
(* of the last underlying error and the count of attempts made.            *)
(***************************************************************************)
AttemptsMade == fallbackCount + 1

C11_ErrorCarriesCountAndCause ==
    stOutcome.kind = "threw" =>
        /\ includes(stOutcome.message, ErrorOf(stError).message)
        /\ includes(stOutcome.message, <<ToString(AttemptsMade)>>)

(***************************************************************************)
(* C17: in streamText, when the retries on the current provider end in an  *)
(* error for which shouldUseFallback is false, getNextFallbackModel is not *)
(* called and the call throws.                                             *)
(***************************************************************************)
C17_NoSwitchWithoutTrigger ==
    [][\A e \in StreamErrorIds :
          (/\ StreamOperationSettles(e)
           /\ stPc' # "sleep"
           /\ ~shouldUseFallback(ErrorOf(e)))
              => (stPc' = "done" /\ stOutcome'.kind = "threw")]_vars

(***************************************************************************)
(* C18: an error whose message says quota exceeded is not retryable: after *)
(* it, rateLimitRetryHandler does not invoke the operation again on the    *)
(* same provider, and the client isRetryableError answers false.           *)
(***************************************************************************)
C18_QuotaNotRetried ==
    [][\A e \in StreamErrorIds :
          (/\ StreamOperationSettles(e)
           /\ includes(toLowerCase(ErrorOf(e).message), <<"quota", " ", "exceeded">>))
              => (stPc' # "sleep" /\ ~isRetryableErrorFB(ErrorOf(e)))]_vars

(***************************************************************************)
(* C19: when the request timer wins the race in streamText and attempts    *)
(* remain, the call is retried on the same provider.                       *)
(***************************************************************************)
C19_TimeoutRetried ==
    [][(StreamOperationSettles("Timeout") /\ stAttempt <= rateLimitRetryHandler.maxRetries)
          => stPc' = "sleep"]_vars

(***************************************************************************)
(* C20: within one call of streamText no (model, provider) pair is         *)
(* attempted more than once.                                               *)
(***************************************************************************)
C20_NoPairTwice ==
    \A i, j \in 1..Len(stTried) : i # j => stTried[i] # stTried[j]

\* The same for pairs that are not neighbours in the pass: the pair returned is
\* then not the failed pair of the call that returned it.
NoPairAgainLater ==
    \A i, j \in 1..Len(stTried) :
        (j > i + 1 /\ stTried[j - 1] # stTried[j]) => stTried[i] # stTried[j]

\* The invocations so far: retryable failures, then a success.
FailsThenSucceeds ==
    /\ Len(rtOps) >= 2
    /\ rtOps[Len(rtOps)] = "ok"
    /\ \A i \in 1..(Len(rtOps) - 1) :
          rtOps[i] # "ok" /\ isRetryableError(DefaultRetryableErrors, ErrorOf(rtOps[i]))

(***************************************************************************)
(* C21: a call of executeWithRetry whose operation fails with retryable    *)
(* errors on its first k attempts, k < maxAttempts, and succeeds on        *)
(* attempt k+1 invokes the operation exactly k+1 times and returns         *)
(* success = true with the operation's result and attempts = k+1.  The     *)
(* call therefore does not end while every invocation so far has failed    *)
(* with a retryable error and fewer than maxAttempts were made.            *)
(***************************************************************************)
C21_SucceedsAfterKFailures ==
    rtPc = "done" =>
        /\ AlwaysFailsRetryable => Len(rtOps) >= rtCall.maxAttempts
        /\ FailsThenSucceeds =>
              /\ rtOutcome.kind = "returned"
              /\ rtOutcome.success
              /\ rtOutcome.data = "ok"
              /\ rtOutcome.attempts = Len(rtOps)

(***************************************************************************)
(* C22: the attempts field of a returned retry outcome equals the number   *)
(* of times the operation was invoked, whatever the outcome, also when the *)
(* loop stopped early on an error that is not retryable.                   *)
(***************************************************************************)
C22_AttemptsIsInvocationCount ==
    (rtPc = "done" /\ rtOutcome.kind = "returned") => rtOutcome.attempts = Len(rtOps)

(***************************************************************************)
(* C23: when an attempt fails with an error that fails the retryability    *)
(* predicate, executeWithRetry stops at once: the step that settles the    *)
(* attempt ends the call with no sleep and no further invocation, and the  *)
(* outcome is a returned result with success = false carrying that error.  *)
(***************************************************************************)
C23_NonRetryableStopsAtOnce ==
    [][\A r \in ErrorIds :
          (OperationSettles(r) /\ ~isRetryableError(DefaultRetryableErrors, ErrorOf(r)))
              => /\ rtPc' = "done"
                 /\ rtOutcome'.kind = "returned"
                 /\ ~rtOutcome'.success
                 /\ rtOutcome'.error = r]_vars

(***************************************************************************)
(* C24: within one executeWithRetry call the attempts are strictly         *)
(* sequential.  An invocation of the operation starts only from the idle   *)
(* call or from the end of the backoff sleep, never while another          *)
(* invocation of the chain is pending, and when attempt i+1 starts all i   *)
(* earlier attempts have settled; the attempt counter moves only at the    *)
(* end of a sleep.                                                         *)
(***************************************************************************)
C24_AttemptsSequential ==
    [][/\ (rtPc' = "operation" /\ rtPc # "operation")
            => /\ rtPc \in {"idle", "sleep"}
               /\ Len(rtOps') = attempt' - 1
       /\ (rtPc = "operation" /\ rtPc' = "operation") => UNCHANGED <<attempt, rtOps>>
       /\ (rtPc # "idle" /\ attempt' # attempt) => rtPc = "sleep"]_vars

C24_Witness ==
    rtPc = "operation" /\ attempt = 2 /\ Len(rtOps) = 1

(***************************************************************************)
(* C25: the coalescing slot of a context is removed in the step in which   *)
(* a chain started under it settles, by success and by failure alike, so   *)
(* no caller continues while the slot is still there; and a call made      *)
(* with a context that has no slot starts a chain of its own.              *)
(***************************************************************************)
C25_SlotRemovedOnSettle ==
    [][/\ \A c \in ChainIds :
            (InFlight(c) /\ chains'[c].phase = "free" /\ chains[c].context # "")
                => chains[c].context \notin DOMAIN activeRequests'
       /\ \A preferredProvider \in Preferred, context \in Contexts :
            (executeWithFallback(preferredProvider, context)
                /\ context \notin DOMAIN activeRequests)
                => (fbStarted' = fbStarted + 1 /\ fbLastStart' = context)]_vars

\* The one chain started, under "k", has settled by failure; its slot is gone.
C25_Witness ==
    /\ fbStarted = 1
    /\ fbLastStart = "k"
    /\ \A c \in ChainIds : ~InFlight(c)
    /\ "k" \notin DOMAIN activeRequests
    /\ \E n \in ProviderNames : providers[n].failureCount > 0

\* The parts of C26: what a call does for a service reported unavailable, and
\* what the failure of primaryOperation records.
SkipsWhenUnavailable ==
    \A opts \in DGOptions :
        (executeWithDegradation(opts) /\ ~isServiceAvailable(services, opts.serviceName))
            => (dgPc' # "primary" /\ "primaryOperation" \notin dgInvoked')

FailureRecordedFirst ==
    PrimarySettles(<< >>) =>
        /\ dgCall.serviceName \in DOMAIN services'
        /\ ~services'[dgCall.serviceName].isAvailable
        /\ dgInvoked' \subseteq {"primaryOperation", "fallbackOperation"}

\* The record the catch block of executeWithDegradation wrote is still there.
RecordedDown(name) ==
    /\ name \in DOMAIN services
    /\ ~services[name].isAvailable
    /\ services[name].error = "primary"

(***************************************************************************)
(* C26: executeWithDegradation never invokes primaryOperation for a        *)
(* service that is reported unavailable at call time, a service never      *)
(* registered included; when primaryOperation fails, the service is        *)
(* recorded unavailable in the step that starts the fallback chain; and a  *)
(* service recorded unavailable becomes available again only by a probe,   *)
(* so that later calls skip primaryOperation until then.                   *)
(***************************************************************************)
C26_SkipsPrimaryUntilProbe ==
    [][/\ SkipsWhenUnavailable
       /\ FailureRecordedFirst
       /\ \A name \in ServiceNames :
            (RecordedDown(name) /\ isServiceAvailable(services', name))
                => ProbeSettles(name, "ok")]_vars

\* The same with registerService, which writes a fresh record with
\* isAvailable = true, as the second way back.
SkipsPrimaryUntilProbeOrRegistration ==
    [][/\ SkipsWhenUnavailable
       /\ FailureRecordedFirst
       /\ \A name \in ServiceNames :
            (RecordedDown(name) /\ isServiceAvailable(services', name))
                => (ProbeSettles(name, "ok") \/ registerService(name))]_vars

\* Every candidate of the list other than the failed pair was tried and
\* failed a check.
NoCandidatePassed ==
    /\ selQueue = << >>
    /\ \A e \in Candidates :
          ~IsFailed(e, selCall.failedModel, selCall.failedProvider)
              => selChecks[e.priority] \in {"missing", "unhealthy", "unavailable"}

(***************************************************************************)
(* C27: when no candidate of the static list passes both checks,           *)
(* getNextFallbackModel returns the pair (DEFAULT_MODEL, DEFAULT_PROVIDER) *)
(* if the default provider passes the health check and null if it does     *)
(* not; and it returns the default or null in no other case.               *)
(***************************************************************************)
C27_DefaultIffHealthy ==
    selPc = "done" =>
        /\ NoCandidatePassed <=> selResult.kind \in {"default", "null"}
        /\ NoCandidatePassed =>
              /\ selEnv.DEFAULT_PROVIDER \in DOMAIN providerHealth
              /\ selResult =
                    IF providerHealth[selEnv.DEFAULT_PROVIDER].isHealthy
                    THEN [kind |-> "default", model |-> selEnv.DEFAULT_MODEL,
                          provider |-> selEnv.DEFAULT_PROVIDER]
                    ELSE [kind |-> "null", model |-> "-", provider |-> "-"]

\* The list is exhausted and the default provider's probe has failed.
C27_Witness ==
    /\ selPc = "done"
    /\ NoCandidatePassed
    /\ selResult.kind = "null"
    /\ ~providerHealth[selEnv.DEFAULT_PROVIDER].isHealthy

\* The provider n is unavailable with its failures on record.
BreakerOpen(n) ==
    ~providers[n].isAvailable /\ providers[n].failureCount >= providers[n].maxFailures

\* The second half of C28 alone: the start of a chain, which queries
\* getAvailableProviders, leaves the count of a provider the breaker has made
\* unavailable as it is.
QueryLeavesCount ==
    [][fbStarted' # fbStarted =>
          \A n \in ProviderNames :
              BreakerOpen(n) => providers'[n].failureCount = providers[n].failureCount]_vars

(***************************************************************************)
(* C28: the failureCount of a provider the circuit breaker has made        *)
(* unavailable goes back to 0 only in a step in which an attempt on that   *)
(* provider succeeds after the cooldown has elapsed; a query of the        *)
(* available providers after the cooldown does not reset it.               *)
(***************************************************************************)
C28_CountResetOnlyBySuccess ==
    [][\A n \in ProviderNames :
          (BreakerOpen(n) /\ providers'[n].failureCount = 0)
              => /\ \E c \in ChainIds :
                       FBOperationSettles(c, "ok") /\ Head(chains[c].queue) = n
                 /\ providers[n].lastFailure # << >>
                 /\ now - providers[n].lastFailure[1] > circuitBreakerTimeout]_vars

\* The first half of C29 alone: a call that finds a verdict younger than the
\* TTL returns it and starts no probe.
CachedVerdictNoProbe ==
    [][\A k \in Callers, providerName \in ProbedProviders :
          (isProviderHealthy(k, providerName)
              /\ CachedFresh(providerHealth, providerName, now))
              => /\ hpCalls'[k].pc = "done"
                 /\ hpCalls'[k].verdict = providerHealth[providerName].isHealthy]_vars

Probing(providerName) ==
    {k \in Callers : hpCalls[k].pc = "probe" /\ hpCalls[k].provider = providerName}

(***************************************************************************)
(* C29: for each provider at most one health probe runs at a time,         *)
(* whatever the number of concurrent _isProviderHealthy calls; two probes  *)
(* of one provider in flight together are also two probes within one       *)
(* cache TTL.                                                              *)
(***************************************************************************)
C29_OneProbeAtATime ==
    \A providerName \in ProbedProviders : Cardinality(Probing(providerName)) <= 1

(***************************************************************************)
(* C30: getCache(key) on a stored entry returns the stored value and       *)
(* keeps the entry exactly when storedAt + ttl >= now; when                *)
(* storedAt + ttl < now it returns null and removes the entry, so that no  *)
(* later read returns it.                                                  *)
(***************************************************************************)
C30_ReadUntilExpiry ==
    [][\A key \in ReadKeys :
          (getCache(key) /\ key \in DOMAIN cache) =>
              IF cache[key].timestamp + cache[key].ttl >= now
              THEN dgRead'.value = <<cache[key].data>> /\ cache' = cache
              ELSE dgRead'.value = << >> /\ key \notin DOMAIN cache']_vars

\* A read has found an expired entry, returned null and removed the entry.
C30_Witness ==
    /\ dgRead.found # << >>
    /\ dgRead.found[1].timestamp + dgRead.found[1].ttl < dgRead.at
    /\ dgRead.value = << >>
    /\ dgRead.key \notin DOMAIN cache

\* What the merged per-call policy says of the error r: with a retryCondition
\* the condition decides, else the predicate over the merged list.
PolicyRetries(r) ==
    IF rtCall.retryableErrors = {CUSTOM_RETRY_CONDITION}
    THEN r \in rtCall.renames
    ELSE isRetryableError(rtCall.retryableErrors, Thrown(r))

(***************************************************************************)
(* C31: a call with a per-call configuration is governed by the merged     *)
(* policy.  When an attempt before the last one fails, the call goes on    *)
(* to a retry exactly when the merged retryable-error list accepts the     *)
(* error, and under retryAsync with a retryCondition exactly when          *)
(* retryCondition returns true for it.                                     *)
(***************************************************************************)
C31_PerCallPolicyGoverns ==
    [][\A r \in ErrorIds :
          (OperationSettles(r) /\ attempt < rtCall.maxAttempts)
              => (rtPc' = "sleep" <=> PolicyRetries(r))]_vars

(***************************************************************************)
(* C35: a retryAsync call runs under a maxAttempts that is a number, the   *)
(* option's or else the manager's, so a finished call has invoked the      *)
(* operation at least once; and when the first invocation succeeded the    *)
(* call has returned its result.                                           *)
(***************************************************************************)
C35_RetryAsyncInvokesOnce ==
    (rtCall.via = "retryAsync" /\ rtPc = "done") =>
        /\ rtCall.maxAttempts # UndefinedNumber
        /\ Len(rtOps) >= 1
        /\ rtOps[1] = "ok" => (rtOutcome.kind = "returned" /\ rtOutcome.success
                                  /\ rtOutcome.data = "ok")

\* The result of checkLimit(k) in a limiter that is never swept: the window
\* and the count are those of the history of the calls.
UnsweptResult(k) ==
    LET fresh == winCalls[k] = 0 \/ now >= winReset[k]
        n == IF fresh THEN 1 ELSE winCalls[k] + 1
        max == rlConfig.maxRequests
    IN  [key |-> k,
         allowed |-> fresh \/ n <= max,
         resetTime |-> IF fresh THEN now + rlConfig.windowMs ELSE winReset[k],
         remaining |-> IF fresh THEN max - 1 ELSE Max2(0, max - n),
         count |-> n, at |-> now, fresh |-> fresh]

(***************************************************************************)
(* C32: the sweep removes exactly the windows whose resetTime has passed,  *)
(* leaves the other windows as they are, and is invisible to callers:      *)
(* every checkLimit call returns what it returns in a limiter that is      *)
(* never swept.                                                            *)
(***************************************************************************)
C32_SweepInvisible ==
    [][/\ cleanup =>
            /\ DOMAIN store' = {k \in DOMAIN store : store[k].resetTime > now}
            /\ \A k \in DOMAIN store' : store'[k] = store[k]
       /\ \A k \in Keys : checkLimit(k) => rlResult' = UnsweptResult(k)]_vars

\* A sweep has removed the expired window of one key and kept the live
\* window of another.
C32_Witness ==
    \E k \in Keys, j \in DOMAIN store :
        /\ winCalls[k] > 0
        /\ k \notin DOMAIN store
        /\ store[j].resetTime > now

(***************************************************************************)
(* C39: a window is fixed.  No step changes the resetTime of a window      *)
(* whose resetTime has not passed, or removes the window, whatever calls   *)
(* arrive for its key; and a checkLimit call for one key leaves the count  *)
(* and resetTime stored for every other key as they are.                   *)
(***************************************************************************)
C39_WindowFixed ==
    [][/\ \A k \in DOMAIN store :
            store[k].resetTime > now
                => (k \in DOMAIN store' /\ store'[k].resetTime = store[k].resetTime)
       /\ \A k \in Keys :
            checkLimit(k)
                => \A j \in DOMAIN store \ {k} :
                       j \in DOMAIN store' /\ store'[j] = store[j]]_vars

\* A key has had a call rejected in its running window, which still ends
\* where it was set to end, while another key has a window of its own.
C39_Witness ==
    \E k \in DOMAIN store, j \in DOMAIN store :
        /\ k # j
        /\ store[k].resetTime > now
        /\ store[k].count > rlConfig.maxRequests
        /\ store[k].count >= 2
        /\ store[k].resetTime = winReset[k]
        /\ store[j].resetTime # store[k].resetTime

\* The step invokes the operation of chain c: the chain enters "op" on the
\* head of its queue, at its start or after a failure on the provider before.
Invokes(c) ==
    /\ chains'[c].phase = "op"
    /\ chains[c].phase # "op" \/ chains'[c].queue # chains[c].queue

(***************************************************************************)
(* C33: executeWithFallback never invokes the operation on a provider      *)
(* whose isAvailable flag is false at the moment of the invocation,        *)
(* whatever failures other calls have recorded on the provider while this  *)
(* call was suspended.                                                     *)
(***************************************************************************)
C33_NoOperationOnUnavailable ==
    [][\A c \in ChainIds :
          Invokes(c) => providers'[Head(chains'[c].queue)].isAvailable]_vars

(***************************************************************************)
(* C34: a chain that settles removes only its own registration.  When the  *)
(* slot of its context holds another chain, registered after               *)
(* clearActiveRequests ran, the settlement leaves that slot in place, so   *)
(* that a call made next is still coalesced onto the other chain.          *)
(***************************************************************************)
C34_SettlesOnlyOwnSlot ==
    [][\A c \in ChainIds :
          ( /\ InFlight(c)
            /\ chains'[c].phase = "free"
            /\ chains[c].context \in DOMAIN activeRequests
            /\ activeRequests[chains[c].context] # c )
          => /\ chains[c].context \in DOMAIN activeRequests'
             /\ activeRequests'[chains[c].context] = activeRequests[chains[c].context]]_vars

\* The provider n is unavailable with fewer failures than its threshold:
\* only setProviderAvailability(n, false) leaves a record so.
SwitchedOff(n) ==
    ~providers[n].isAvailable /\ providers[n].failureCount < providers[n].maxFailures

(***************************************************************************)
(* C38: a provider disabled by setProviderAvailability(name, false) stays  *)
(* unavailable until setProviderAvailability(name, true): no other step,   *)
(* the success of an operation already in flight on it and the cooldown    *)
(* of getAvailableProviders included, makes it available.                  *)
(***************************************************************************)
C38_DisabledUntilEnabled ==
    [][\A n \in ProviderNames :
          (SwitchedOff(n) /\ providers'[n].isAvailable)
              => setProviderAvailability(n, TRUE)]_vars

\* The names q are the available providers of provs, each once: the preferred
\* one first when it is among them, the others by ascending priority.
PreferredThenPriority(q, provs, preferredProvider) ==
    LET first == IF preferredProvider # "" /\ preferredProvider \in DOMAIN provs
                    /\ provs[preferredProvider].isAvailable
                 THEN 2 ELSE 1
    IN  /\ {q[i] : i \in 1..Len(q)} = {n \in DOMAIN provs : provs[n].isAvailable}
        /\ \A i, j \in 1..Len(q) : i # j => q[i] # q[j]
        /\ first = 2 => q[1] = preferredProvider
        /\ \A i, j \in first..Len(q) : i < j => provs[q[i]].priority <= provs[q[j]].priority

\* The chain c is started by this step.
Started(c) == ~InFlight(c) /\ chains'[c].phase = "op"

\* The chain c invokes the operation on one more provider in this step.
InvokesNext(c) == InFlight(c) /\ chains'[c].phase = "op" /\ chains'[c] # chains[c]

(***************************************************************************)
(* C40: one executeWithFallbackInternal call invokes the operation on the  *)
(* preferred provider first when it is available, then on the remaining    *)
(* available providers by ascending priority, each at most once; it stops  *)
(* at the first success or once maxRetries attempts have failed, and it    *)
(* throws without an invocation when no provider is available.             *)
(***************************************************************************)
C40_PreferredThenPriority ==
    [][/\ \A preferredProvider \in Preferred :
             (executeWithFallback(preferredProvider, "") /\ fbStarted' # fbStarted)
                 => IF \E n \in ProviderNames : providers'[n].isAvailable
                    THEN \E c \in ChainIds :
                            /\ Started(c)
                            /\ PreferredThenPriority(chains'[c].queue, providers',
                                                      preferredProvider)
                    ELSE chains' = chains
       /\ \A c \in ChainIds :
             /\ InvokesNext(c) => /\ chains'[c].queue = Tail(chains[c].queue)
                                  /\ chains'[c].attemptCount < maxRetries
                                  /\ ~FBOperationSettles(c, "ok")
             /\ FBOperationSettles(c, "ok") => ~InFlight(c)'
             /\ (InFlight(c) /\ chains'[c].attemptCount >= maxRetries) => ~InFlight(c)'
             /\ InFlight(c)' => /\ chains'[c].queue # << >>
                                /\ Len(chains'[c].queue) <= chains'[c].total]_vars

\* A chain has failed on the preferred provider "OpenAI" and is on
\* "OpenRouter", the first of the others by priority.
C40_Witness ==
    \E c \in ChainIds :
        /\ chains[c].phase = "op"
        /\ chains[c].attemptCount = 1
        /\ Head(chains[c].queue) = "OpenRouter"
        /\ Len(chains[c].queue) = chains[c].total - 1

\* A call has thrown at once: no provider was available.
NoneAvailableReached ==
    /\ fbStarted > 0
    /\ \A c \in ChainIds : ~InFlight(c)
    /\ \A n \in ProviderNames : ~providers[n].isAvailable

(***************************************************************************)
(* C37: after unregisterService(name) the services map holds no entry for  *)
(* name until registerService(name) is called again: an entry appears      *)
(* only by registerService, also when a health probe or a primaryOperation *)
(* for the service was in flight at the removal and completes afterwards.  *)
(***************************************************************************)
C37_AbsentUntilRegistered ==
    [][\A name \in ServiceNames :
          (name \notin DOMAIN services /\ name \in DOMAIN services')
              => registerService(name)]_vars

\* The failure of a primaryOperation in flight leaves a removed service removed.
PrimaryLeavesRemoved ==
    [][\A name \in ServiceNames :
          (name \notin DOMAIN services /\ PrimarySettles(<< >>))
              => name \notin DOMAIN services']_vars

\* The attempts one retry chain of rateLimitRetryHandler can make.
ChainAttempts == rateLimitRetryHandler.maxRetries + 1

\* How far the call is inside one attempt: the operation, then its sleep or
\* the selection of a fallback in `try`, then the one in `catch`.
PcRank == CASE stPc = "operation"                   -> 2
            [] stPc = "sleep"                       -> 1
            [] stPc = "select" /\ stWhere = "try"   -> 1
            [] OTHER                                -> 0

\* A variant of the fallback loop: the fallbacks left, then the attempts left
\* in the retry chain, then the place in the attempt; 0 once the call is over.
LoopVariant ==
    IF stPc = "done" THEN 0
    ELSE 1 + PcRank + 3 * (ChainAttempts - stAttempt)
           + 3 * (ChainAttempts + 1) * (maxFallbackAttempts - fallbackCount)

(***************************************************************************)
(* C36: the fallback loop of streamText terminates, with a result or a     *)
(* thrown error, after at most maxFallbackAttempts + 1 retry chains: every *)
(* step of the call lowers a variant that is a natural number, every       *)
(* iteration that continues increments fallbackCount, and no more than     *)
(* maxFallbackAttempts + 1 retry chains are started, whatever the          *)
(* operation and getNextFallbackModel answer.                              *)
(***************************************************************************)
C36_LoopTerminates ==
    [][/\ stVars' # stVars => (LoopVariant' < LoopVariant /\ LoopVariant' >= 0)
       /\ (stTried # << >> /\ stTried' # stTried)
              => /\ fallbackCount' = fallbackCount + 1
                 /\ Len(stTried') = Len(stTried) + 1
       /\ fallbackCount' <= maxFallbackAttempts
       /\ Len(stTried') <= maxFallbackAttempts + 1
       /\ stPc' = "done" => stOutcome'.kind \in {"returned", "threw"}]_vars

\* The call is over after four retry chains, each on another pair.
C36_Witness ==
    /\ stPc = "done"
    /\ Len(stTried) = maxFallbackAttempts + 1
    /\ fallbackCount = maxFallbackAttempts

====
